---- MODULE Spec2Model ----
(***************************************************************************)
(* Monexa client (React Native / Expo): number formatting, the shared      *)
(* axios client with its 503 retry interceptor, the data loads of the      *)
(* Home / Insights / Transactions screens, the Insights chart rendering    *)
(* and the add-transaction form.                                           *)
(*                                                                         *)
(* Each subsystem has its own variables, initial condition and next-state  *)
(* relation; a specification SpecX runs one subsystem and leaves the       *)
(* variables of the others at their initial values.                        *)
(***************************************************************************)
EXTENDS Integers, Sequences, FiniteSets, TLC

VARIABLES
  \* ---- utils/format: one call of a formatting function
  fmtValue,      \* the argument: [str |-> chars, asNumber |-> BOOLEAN]
  fmtSymbol,     \* currencySymbol argument of formatCurrency
  fmtCall,       \* which function was called ("none" before the call)
  fmtResult,     \* what the call returned
  \* ---- utils/api: one request at a time through the shared axios client
  apiPc,         \* "idle", "sent", "backoff", "resolved" or "rejected"
  apiConfig,     \* the request's config: url, _retry, _retryCount, headers
  apiToken,      \* AsyncStorage 'token' ("none" when absent)
  apiAttempts,   \* what went over the wire: <<[auth, status]>>, one per send
  apiDelay,      \* milliseconds of the backoff timer last armed
  apiOutcome,    \* how the caller's promise settled
  \* ---- (tabs)/home and (tabs)/insights: the loadData calls
  focus,         \* the tab in focus: "home", "insights" or "other"
  loads,         \* the loadData calls whose requests are not all settled
  loadCalls,     \* number of loadData calls made so far
  homeLoading, homeRefreshing, homeData,   \* HomeScreen state
  insLoading, insRefreshing, insData,      \* InsightsScreen state
  \* ---- (tabs)/transactions and the server's transaction list
  txVariant,           \* which TransactionsScreen of the repository runs
  route,               \* the screen on top: "other", "transactions", "add"
  serverTxns,          \* GET /transactions would return this list
  txPending,           \* GET /transactions requests not yet settled
  txTransactions,      \* useState transactions
  groupedTransactions, \* useState groupedTransactions: date -> group
  txLoading, txRefreshing,
  \* ---- (tabs)/insights: the chart
  userTier,            \* the user's subscription: "free", "starter", "pro"
  nowMin, tzMin,       \* the device clock (minutes, UTC) and its UTC offset
  insAnalytics,        \* useState analytics (loaded = FALSE: null)
  insTransactions,     \* useState transactions
  chartType, timePeriod, viewMode,
  customStartDate, customEndDate,   \* day numbers, NoDate for null
  chartArea,           \* what renderChart returned at the last render
  \* ---- add-transaction
  serverCategories,    \* what GET /categories answers
  addFrom,             \* the tab under the pushed add-transaction screen
  addType, addAmount, categoryId, incomeSource, addDate,
  categories, addLoading, loadingCategories,
  effectPending,       \* useEffect([type, categories]) is due to run
  addPost,             \* the payload of the POST /transactions in flight
  addAlert,            \* the alert on display, "" for none
  \* ---- (tabs)/insights: the period filter
  insFiltered,         \* what filterTransactionsByPeriod(transactions) returned
  \* ---- budget
  budgetOpen,          \* the Set Budget screen is mounted
  serverBudget,        \* monthly_budget of GET /profile, 0 for none
  budgetLoadPending,   \* loadBudget's GET /profile is in flight
  budgetPeriod, budget, budgetLoading,
  budgetPut,           \* the body of the PUT /profile/preferences in flight
  budgetAlert,         \* the alert on display, "" for none
  \* ---- (tabs)/chat
  chatHistory,         \* the messages the server has stored
  chatPosts,           \* the POST /chat requests in flight
  chatGets,            \* the GET /chat/history requests in flight
  chatSends,           \* sends so far: the next message's number
  messages, inputText, chatLoading, initialLoad,
  \* ---- categories
  catOpen,             \* the Categories screen is mounted
  catLoading,          \* useState loading
  catGets,             \* GET /categories requests not yet settled
  catAdding,           \* useState adding: POST /categories is in flight
  catDeletes,          \* DELETE /categories/{id} requests in flight
  catWrites,           \* adds and deletes so far
  \* ---- _layout: RootLayout
  layoutPc,            \* "unmounted", "fetching", "done" or "failed"
  publishableKey,      \* useState publishableKey
  configKey            \* publishable_key of GET /subscription/config

fmtVars == <<fmtValue, fmtSymbol, fmtCall, fmtResult>>
apiVars == <<apiPc, apiConfig, apiToken, apiAttempts, apiDelay, apiOutcome>>

loadVars == <<focus, loads, loadCalls, homeLoading, homeRefreshing, homeData,
              insLoading, insRefreshing, insData>>

txVars == <<txVariant, route, serverTxns, txPending, txTransactions,
            groupedTransactions, txLoading, txRefreshing>>

chartVars == <<userTier, nowMin, tzMin, insAnalytics, insTransactions,
               chartType, timePeriod, viewMode, customStartDate,
               customEndDate, chartArea>>

addVars == <<serverCategories, addFrom, addType, addAmount, categoryId,
             incomeSource, addDate, categories, addLoading,
             loadingCategories, effectPending, addPost, addAlert>>

filterVars == <<insFiltered>>

budgetVars == <<budgetOpen, serverBudget, budgetLoadPending, budgetPeriod,
                budget, budgetLoading, budgetPut, budgetAlert>>

chatVars == <<chatHistory, chatPosts, chatGets, chatSends, messages,
              inputText, chatLoading, initialLoad>>

catVars == <<catOpen, catLoading, catGets, catAdding, catDeletes, catWrites>>

layoutVars == <<layoutPc, publishableKey, configKey>>

vars == <<fmtVars, apiVars, loadVars, txVars, chartVars, addVars, filterVars,
          budgetVars, chatVars, catVars, layoutVars>>

notFmtVars == <<apiVars, loadVars, txVars, chartVars, addVars, filterVars, budgetVars, chatVars, catVars, layoutVars>>
notApiVars == <<fmtVars, loadVars, txVars, chartVars, addVars, filterVars, budgetVars, chatVars, catVars, layoutVars>>
notLoadVars == <<fmtVars, apiVars, txVars, chartVars, addVars, filterVars, budgetVars, chatVars, catVars, layoutVars>>
notTxVars == <<fmtVars, apiVars, loadVars, chartVars, addVars, filterVars, budgetVars, chatVars, catVars, layoutVars>>
notChartVars == <<fmtVars, apiVars, loadVars, txVars, addVars, filterVars, budgetVars, chatVars, catVars, layoutVars>>
notAddTxVars == <<fmtVars, apiVars, loadVars, chartVars, filterVars, budgetVars, chatVars, catVars, layoutVars>>
notChartFilterVars == <<fmtVars, apiVars, loadVars, txVars, addVars, budgetVars, chatVars, catVars, layoutVars>>
notBudgetVars == <<fmtVars, apiVars, loadVars, txVars, chartVars, addVars,
                   filterVars, chatVars, catVars, layoutVars>>
notChatVars == <<fmtVars, apiVars, loadVars, txVars, chartVars, addVars,
                 filterVars, budgetVars, catVars, layoutVars>>
notCatVars == <<fmtVars, apiVars, loadVars, txVars, chartVars, addVars,
                filterVars, budgetVars, chatVars, layoutVars>>
notLayoutVars == <<fmtVars, apiVars, loadVars, txVars, chartVars, addVars,
                   filterVars, budgetVars, chatVars, catVars>>
notApiLayoutVars == <<fmtVars, loadVars, txVars, chartVars, addVars,
                      filterVars, budgetVars, chatVars, catVars>>

(***************************************************************************)
(* Generic helpers                                                         *)
(***************************************************************************)
RECURSIVE Pow10(_)
Pow10(n) == IF n = 0 THEN 1 ELSE 10 * Pow10(n - 1)

RECURSIVE SeqsUpTo(_, _)
SeqsUpTo(S, n) ==
  IF n = 0 THEN {<<>>}
  ELSE LET shorter == SeqsUpTo(S, n - 1)
       IN  shorter \cup {Append(s, x) : s \in shorter, x \in S}

Range(s) == {s[i] : i \in 1..Len(s)}

(***************************************************************************)
(* utils/format                                                            *)
(*                                                                         *)
(* A string is a sequence of one-character strings.  A JavaScript number   *)
(* is NaN or a signed decimal [neg, m] with magnitude m / Scale (the sign  *)
(* is kept apart so that -0 exists, as in IEEE 754).                       *)
(***************************************************************************)
MaxLen == 4                    \* longest input string
Scale == Pow10(MaxLen)         \* denominator: every parsed input is exact

Alphabet == {"0", "1", "5", ".", ",", "-", "a"}
DigitChars == {"0", "1", "2", "3", "4", "5", "6", "7", "8", "9"}

DigitVal(c) ==
  CASE c = "0" -> 0 [] c = "1" -> 1 [] c = "2" -> 2 [] c = "3" -> 3
    [] c = "4" -> 4 [] c = "5" -> 5 [] c = "6" -> 6 [] c = "7" -> 7
    [] c = "8" -> 8 [] c = "9" -> 9

DigitChar(d) ==
  CASE d = 0 -> "0" [] d = 1 -> "1" [] d = 2 -> "2" [] d = 3 -> "3"
    [] d = 4 -> "4" [] d = 5 -> "5" [] d = 6 -> "6" [] d = 7 -> "7"
    [] d = 8 -> "8" [] d = 9 -> "9"

NaN == [k |-> "nan"]
Num(neg, m) == [k |-> "num", neg |-> neg, m |-> m]
isNaN(x) == x.k = "nan"

\* number of consecutive digits of s from position i on
RECURSIVE DigitRun(_, _)
DigitRun(s, i) ==
  IF i <= Len(s) /\ s[i] \in DigitChars THEN 1 + DigitRun(s, i + 1) ELSE 0

\* value of the n digits of s that start at position i
RECURSIVE DigitsValue(_, _, _)
DigitsValue(s, i, n) ==
  IF n = 0 THEN 0
  ELSE 10 * DigitsValue(s, i, n - 1) + DigitVal(s[i + n - 1])

\* ECMAScript parseFloat: the longest prefix that is a decimal literal
\* (sign, digits, '.', digits), NaN when that prefix holds no digit.
parseFloat(s) ==
  LET signed == Len(s) >= 1 /\ s[1] \in {"-", "+"}
      neg    == Len(s) >= 1 /\ s[1] = "-"
      i      == IF signed THEN 2 ELSE 1
      nI     == DigitRun(s, i)
      dot    == i + nI <= Len(s) /\ s[i + nI] = "."
      nF     == IF dot THEN DigitRun(s, i + nI + 1) ELSE 0
      int    == DigitsValue(s, i, nI)
      frac   == DigitsValue(s, i + nI + 1, nF)
  IN  IF nI = 0 /\ nF = 0 THEN NaN
      ELSE Num(neg, int * Scale + frac * (Scale \div Pow10(nF)))

\* String.prototype.replace(/,/g, '')
RECURSIVE RemoveCommas(_)
RemoveCommas(s) ==
  IF s = <<>> THEN <<>>
  ELSE IF Head(s) = "," THEN RemoveCommas(Tail(s))
       ELSE <<Head(s)>> \o RemoveCommas(Tail(s))

\* decimal digits of a natural number, most significant first
RECURSIVE NatDigits(_)
NatDigits(n) ==
  IF n < 10 THEN <<DigitChar(n)>>
  ELSE Append(NatDigits(n \div 10), DigitChar(n % 10))

\* en-US grouping: a comma before every group of three digits
RECURSIVE Grouped(_)
Grouped(ds) ==
  IF Len(ds) <= 3 THEN ds
  ELSE Grouped(SubSeq(ds, 1, Len(ds) - 3)) \o <<",">>
         \o SubSeq(ds, Len(ds) - 2, Len(ds))

\* the n digits of f, zero padded on the left
RECURSIVE FixedDigits(_, _)
FixedDigits(f, n) ==
  IF n = 0 THEN <<>>
  ELSE Append(FixedDigits(f \div 10, n - 1), DigitChar(f % 10))

\* drop trailing zeros while more than minDigits digits remain
RECURSIVE TrimZeros(_, _)
TrimZeros(ds, minDigits) ==
  IF Len(ds) > minDigits /\ ds[Len(ds)] = "0"
  THEN TrimZeros(SubSeq(ds, 1, Len(ds) - 1), minDigits)
  ELSE ds

\* Number.prototype.toLocaleString('en-US', {minimumFractionDigits,
\* maximumFractionDigits}): round half away from zero to maxFD digits,
\* group the integer part, keep at least minFD fraction digits.
toLocaleString(x, minFD, maxFD) ==
  IF isNaN(x) THEN <<"N", "a", "N">>
  ELSE LET unit == Scale \div Pow10(maxFD)
           r    == (x.m + unit \div 2) \div unit
           int  == r \div Pow10(maxFD)
           frac == TrimZeros(FixedDigits(r % Pow10(maxFD), maxFD), minFD)
       IN  (IF x.neg THEN <<"-">> ELSE <<>>)
             \o Grouped(NatDigits(int))
             \o (IF frac = <<>> THEN <<>> ELSE <<".">> \o frac)

\* typeof value === 'string' ? parseFloat(value) : value
ToNum(value) == IF value.asNumber THEN value.num ELSE parseFloat(value.str)

\* num % 1 !== 0
hasDecimals(x) == x.m % Scale # 0

\* formatNumber without its isNaN guard
formatNumberNoGuard(value, decimals) ==
  toLocaleString(ToNum(value), decimals, decimals)

\* frontend/utils/format.ts
formatNumber(value, decimals) ==
  LET num == ToNum(value)
  IN  IF isNaN(num) THEN <<"0", ".", "0", "0">>
      ELSE toLocaleString(num, decimals, decimals)

formatCurrency(value, currencySymbol) ==
  currencySymbol \o formatNumber(value, 2)

parseFormattedNumber(s) ==
  LET x == parseFloat(RemoveCommas(s))
  IN  IF isNaN(x) \/ x.m = 0 THEN Num(FALSE, 0) ELSE x

\* the other utils/format of the repository (conditional decimals)
formatNumberCond(value) ==
  LET num == ToNum(value)
  IN  IF isNaN(num) THEN <<"0">>
      ELSE toLocaleString(num, IF hasDecimals(num) THEN 2 ELSE 0, 2)

formatCurrencyCond(value, currencySymbol) ==
  LET num == ToNum(value)
  IN  IF isNaN(num) THEN currencySymbol \o <<"0">>
      ELSE currencySymbol
             \o toLocaleString(num, IF hasDecimals(num) THEN 2 ELSE 0, 2)

parseFormattedNumberCond(s) ==
  LET x == parseFloat(RemoveCommas(s))
  IN  IF isNaN(x) \/ x.m = 0 THEN Num(FALSE, 0) ELSE x

Strings == SeqsUpTo(Alphabet, MaxLen)
Symbols == {<<"$">>, <<"P", "K", "R">>}

\* an argument is a string, or the number a string stands for
Values ==
  {[str |-> s, asNumber |-> FALSE, num |-> NaN] : s \in Strings}
    \cup {[str |-> s, asNumber |-> TRUE, num |-> parseFloat(s)] : s \in Strings}

\* the number 0 as an argument
ZeroArg == [str |-> <<"0">>, asNumber |-> TRUE, num |-> Num(FALSE, 0)]

FormatIdle ==
  /\ fmtCall = "none"
  /\ fmtResult = <<>>

\* no formatting call is being looked at
FormatQuiet ==
  /\ fmtValue = ZeroArg
  /\ fmtSymbol = <<"$">>
  /\ FormatIdle

InitFormat ==
  /\ fmtValue \in Values
  /\ fmtSymbol \in Symbols
  /\ FormatIdle

CallFormatNumber ==
  /\ fmtCall = "none"
  /\ fmtCall' = "formatNumber"
  /\ fmtResult' = formatNumber(fmtValue, 2)
  /\ UNCHANGED <<fmtValue, fmtSymbol>>
  /\ UNCHANGED notFmtVars

CallFormatCurrency ==
  /\ fmtCall = "none"
  /\ fmtCall' = "formatCurrency"
  /\ fmtResult' = formatCurrency(fmtValue, fmtSymbol)
  /\ UNCHANGED <<fmtValue, fmtSymbol>>
  /\ UNCHANGED notFmtVars

CallParseFormattedNumber ==
  /\ fmtCall = "none"
  /\ ~fmtValue.asNumber
  /\ fmtCall' = "parseFormattedNumber"
  /\ fmtResult' = parseFormattedNumber(fmtValue.str)
  /\ UNCHANGED <<fmtValue, fmtSymbol>>
  /\ UNCHANGED notFmtVars

CallFormatNumberCond ==
  /\ fmtCall = "none"
  /\ fmtCall' = "formatNumberCond"
  /\ fmtResult' = formatNumberCond(fmtValue)
  /\ UNCHANGED <<fmtValue, fmtSymbol>>
  /\ UNCHANGED notFmtVars

CallFormatCurrencyCond ==
  /\ fmtCall = "none"
  /\ fmtCall' = "formatCurrencyCond"
  /\ fmtResult' = formatCurrencyCond(fmtValue, fmtSymbol)
  /\ UNCHANGED <<fmtValue, fmtSymbol>>
  /\ UNCHANGED notFmtVars

CallParseFormattedNumberCond ==
  /\ fmtCall = "none"
  /\ ~fmtValue.asNumber
  /\ fmtCall' = "parseFormattedNumberCond"
  /\ fmtResult' = parseFormattedNumberCond(fmtValue.str)
  /\ UNCHANGED <<fmtValue, fmtSymbol>>
  /\ UNCHANGED notFmtVars

NextFormat ==
  \/ CallFormatNumber
  \/ CallFormatCurrency
  \/ CallParseFormattedNumber
  \/ CallFormatNumberCond
  \/ CallFormatCurrencyCond
  \/ CallParseFormattedNumberCond

(***************************************************************************)
(* utils/api: the shared axios instance and its interceptors               *)
(***************************************************************************)
ServiceUnavailable == 503      \* the status the response interceptor retries
RetryDelayMs == 1000           \* backoff unit: 1000 * config._retryCount
RetryCountLimit == 3           \* config._retryCount <= 3

Urls == {"/transactions", "/categories"}
Tokens == {"t1", "t2"}
\* what a send can end in: a response with an HTTP status, or an error
\* without response (status 0): a network failure or the 30 s timeout
Statuses == {200, 404, 500, 503}
Replies ==
  {[status |-> st, code |-> "none"] : st \in Statuses}
    \cup {[status |-> 0, code |-> "ERR_NETWORK"],
          [status |-> 0, code |-> "ECONNABORTED"]}
NoReply == [status |-> 0, code |-> "none"]

\* axios validateStatus: 2xx resolves, everything else is an error
IsSuccess(reply) == reply.status >= 200 /\ reply.status < 300

\* request interceptor: Authorization is set when a token is stored, and
\* left as it is otherwise
requestInterceptor(config, token) ==
  IF token # "none" THEN [config EXCEPT !.auth = token] ELSE config

\* the message the error is rejected with
errorMessage(reply) ==
  IF reply.code = "ECONNABORTED"
  THEN "Request timed out. Please check your internet connection."
  ELSE IF reply.status = 0 THEN "Network error. Server may be unreachable."
  ELSE IF reply.status = ServiceUnavailable THEN "Server is waking up. Please try again in a moment."
  ELSE "Request failed"

\* response interceptor, error branch, with the retry branch removed
responseErrorNoRetry(config, reply) ==
  [do |-> "reject", config |-> config, delay |-> 0,
   message |-> errorMessage(reply)]

\* response interceptor, error branch with a backoff that does not grow
\* with the retry count
responseErrorFlatDelay(config, reply) ==
  IF reply.status = ServiceUnavailable /\ ~config._retry
  THEN LET c == [config EXCEPT !._retry = TRUE,
                               !._retryCount = config._retryCount + 1]
       IN  IF c._retryCount <= RetryCountLimit
           THEN [do |-> "retry", config |-> c, delay |-> 0,
                 message |-> ""]
           ELSE [do |-> "reject", config |-> c, delay |-> 0,
                 message |-> errorMessage(reply)]
  ELSE [do |-> "reject", config |-> config, delay |-> 0,
        message |-> errorMessage(reply)]

\* response interceptor, error branch that re-issues on every 503
responseErrorRetryAlways(config, reply) ==
  IF reply.status = ServiceUnavailable
  THEN [do |-> "retry", config |-> [config EXCEPT !._retry = TRUE],
        delay |-> RetryDelayMs, message |-> ""]
  ELSE [do |-> "reject", config |-> config, delay |-> 0,
        message |-> errorMessage(reply)]

\* response interceptor, error branch: what to do with a failed send
responseError(config, reply) ==
  IF reply.status = ServiceUnavailable /\ ~config._retry
  THEN LET c == [config EXCEPT !._retry = TRUE,
                               !._retryCount = config._retryCount + 1]
       IN  IF c._retryCount <= RetryCountLimit
           THEN [do |-> "retry", config |-> c,
                 delay |-> RetryDelayMs * c._retryCount, message |-> ""]
           ELSE [do |-> "reject", config |-> c, delay |-> 0,
                 message |-> errorMessage(reply)]
  ELSE [do |-> "reject", config |-> config, delay |-> 0,
        message |-> errorMessage(reply)]

NoConfig == [url |-> "none", _retry |-> FALSE, _retryCount |-> 0, auth |-> "none"]
NoOutcome == [kind |-> "none", reply |-> NoReply, message |-> ""]

ApiIdle ==
  /\ apiPc = "idle"
  /\ apiConfig = NoConfig
  /\ apiToken = "none"
  /\ apiAttempts = <<>>
  /\ apiDelay = 0
  /\ apiOutcome = NoOutcome

\* the token may already be stored when the app starts
InitApi ==
  /\ apiPc = "idle"
  /\ apiConfig = NoConfig
  /\ apiToken \in Tokens \cup {"none"}
  /\ apiAttempts = <<>>
  /\ apiDelay = 0
  /\ apiOutcome = NoOutcome

\* api.get(url) / api.post(url): a fresh config goes through the request
\* interceptor and is sent
ApiCall(url) ==
  /\ apiPc \in {"idle", "resolved", "rejected"}
  /\ apiPc' = "sent"
  /\ apiConfig' = requestInterceptor([NoConfig EXCEPT !.url = url], apiToken)
  /\ apiAttempts' = <<>>
  /\ apiDelay' = 0
  /\ apiOutcome' = NoOutcome
  /\ UNCHANGED apiToken
  /\ UNCHANGED notApiVars

\* a 2xx response: (response) => response
ApiSuccess(reply) ==
  /\ apiPc = "sent"
  /\ IsSuccess(reply)
  /\ apiAttempts' = Append(apiAttempts, [auth |-> apiConfig.auth, reply |-> reply])
  /\ apiPc' = "resolved"
  /\ apiOutcome' = [kind |-> "response", reply |-> reply, message |-> ""]
  /\ UNCHANGED <<apiConfig, apiToken, apiDelay>>
  /\ UNCHANGED notApiVars

\* an error (non-2xx status, no response, timeout): async (error) => ...
ApiError(reply) ==
  /\ apiPc = "sent"
  /\ ~IsSuccess(reply)
  /\ apiAttempts' = Append(apiAttempts, [auth |-> apiConfig.auth, reply |-> reply])
  /\ LET r == responseError(apiConfig, reply)
     IN  /\ apiConfig' = r.config
         /\ IF r.do = "retry"
            THEN /\ apiPc' = "backoff"
                 /\ apiDelay' = r.delay
                 /\ apiOutcome' = NoOutcome
            ELSE /\ apiPc' = "rejected"
                 /\ apiDelay' = apiDelay
                 /\ apiOutcome' = [kind |-> "error", reply |-> reply,
                                   message |-> r.message]
  /\ UNCHANGED apiToken
  /\ UNCHANGED notApiVars

\* the backoff timer fires: return api(config), which runs the request
\* interceptor again on the same config
ApiReissue ==
  /\ apiPc = "backoff"
  /\ apiPc' = "sent"
  /\ apiConfig' = requestInterceptor(apiConfig, apiToken)
  /\ UNCHANGED <<apiToken, apiAttempts, apiDelay, apiOutcome>>
  /\ UNCHANGED notApiVars

\* login: AsyncStorage.setItem('token', t)
StoreToken(t) ==
  /\ apiToken = "none"
  /\ apiToken' = t
  /\ UNCHANGED <<apiPc, apiConfig, apiAttempts, apiDelay, apiOutcome>>
  /\ UNCHANGED notApiVars

\* logout: AsyncStorage.removeItem('token')
RemoveToken ==
  /\ apiToken # "none"
  /\ apiToken' = "none"
  /\ UNCHANGED <<apiPc, apiConfig, apiAttempts, apiDelay, apiOutcome>>
  /\ UNCHANGED notApiVars

\* an attempt in flight ends: with a response, a network error, or the
\* timeout of 30000 ms
ApiSettle ==
  \/ \E reply \in Replies : ApiSuccess(reply)
  \/ \E reply \in Replies : ApiError(reply)

NextApi ==
  \/ \E url \in Urls : ApiCall(url)
  \/ \E reply \in Replies : ApiSuccess(reply)
  \/ \E reply \in Replies : ApiError(reply)
  \/ ApiReissue
  \/ \E t \in Tokens : StoreToken(t)
  \/ RemoveToken

(***************************************************************************)
(* (tabs)/home and (tabs)/insights: loadData                               *)
(*                                                                         *)
(* A request is "inflight" from api.get until its promise settles ("ok" or *)
(* "fail").  A loadData call is kept until all of its requests have        *)
(* settled: Promise.all rejects at the first failure, while the other      *)
(* requests of the call go on.  Data is tagged with the number of the      *)
(* loadData call that set it (0: never set).                               *)
(***************************************************************************)
MaxLoads == 2                  \* loadData calls with unsettled requests
MaxCalls == 2                  \* loadData calls in one run

HomeRequests == 2              \* /analytics/summary, /transactions?limit=5
InsightsRequests == 3          \* /analytics/summary, /analytics/insights, /transactions

NumRequests(screen) == IF screen = "home" THEN HomeRequests ELSE InsightsRequests

NoLoad == [screen |-> "none", id |-> 0, reqs |-> <<>>]

\* a loadData that awaits each request before it issues the next
issueOneByOne(n) == [i \in 1..n |-> IF i = 1 THEN "inflight" ELSE "waiting"]

\* Promise.all([api.get(..), ...]): every request is issued before the await
issueAll(n) == [i \in 1..n |-> "inflight"]

FreeSlots == {sl \in 1..MaxLoads : loads[sl].screen = "none"}
CanLoad == FreeSlots # {} /\ loadCalls < MaxCalls
NewSlot == CHOOSE sl \in FreeSlots : \A other \in FreeSlots : sl <= other

\* number of HTTP requests in flight
InFlight(ls) ==
  Cardinality({<<sl, i>> \in (1..MaxLoads) \X (1..InsightsRequests) :
                 i <= Len(ls[sl].reqs) /\ ls[sl].reqs[i] = "inflight"})

\* the loads after loadData() is called on a screen
startLoad(screen) ==
  [loads EXCEPT ![NewSlot] = [screen |-> screen, id |-> loadCalls + 1,
                              reqs |-> issueAll(NumRequests(screen))]]

Settled(reqs) == \A i \in 1..Len(reqs) : reqs[i] \in {"ok", "fail"}
AllOk(reqs) == \A i \in 1..Len(reqs) : reqs[i] = "ok"
AnyFail(reqs) == \E i \in 1..Len(reqs) : reqs[i] = "fail"

NoHomeData == [summary |-> 0, transactions |-> 0]
NoInsData == [analytics |-> 0, insights |-> 0, transactions |-> 0]

LoadIdle ==
  /\ focus = "other"
  /\ loads = [sl \in 1..MaxLoads |-> NoLoad]
  /\ loadCalls = 0
  /\ homeLoading = TRUE
  /\ homeRefreshing = FALSE
  /\ homeData = NoHomeData
  /\ insLoading = TRUE
  /\ insRefreshing = FALSE
  /\ insData = NoInsData

\* useFocusEffect(useCallback(() => { loadData(); }, [])) of HomeScreen
FocusHome ==
  /\ focus # "home"
  /\ CanLoad
  /\ focus' = "home"
  /\ loads' = startLoad("home")
  /\ loadCalls' = loadCalls + 1
  /\ UNCHANGED <<homeLoading, homeRefreshing, homeData,
                 insLoading, insRefreshing, insData>>
  /\ UNCHANGED notLoadVars

\* HomeScreen.onRefresh (the RefreshControl is rendered once loading is false)
HomeRefresh ==
  /\ focus = "home"
  /\ ~homeLoading
  /\ CanLoad
  /\ homeRefreshing' = TRUE
  /\ loads' = startLoad("home")
  /\ loadCalls' = loadCalls + 1
  /\ UNCHANGED <<focus, homeLoading, homeData, insLoading, insRefreshing, insData>>
  /\ UNCHANGED notLoadVars

\* useFocusEffect of InsightsScreen
FocusInsights ==
  /\ focus # "insights"
  /\ CanLoad
  /\ focus' = "insights"
  /\ loads' = startLoad("insights")
  /\ loadCalls' = loadCalls + 1
  /\ UNCHANGED <<homeLoading, homeRefreshing, homeData,
                 insLoading, insRefreshing, insData>>
  /\ UNCHANGED notLoadVars

\* InsightsScreen.onRefresh (header button and RefreshControl)
InsightsRefresh ==
  /\ focus = "insights"
  /\ ~insLoading
  /\ CanLoad
  /\ insRefreshing' = TRUE
  /\ loads' = startLoad("insights")
  /\ loadCalls' = loadCalls + 1
  /\ UNCHANGED <<focus, homeLoading, homeRefreshing, homeData, insLoading, insData>>
  /\ UNCHANGED notLoadVars

\* another tab takes the focus; the screens stay mounted
FocusOther ==
  /\ focus # "other"
  /\ focus' = "other"
  /\ UNCHANGED <<loads, loadCalls, homeLoading, homeRefreshing, homeData,
                 insLoading, insRefreshing, insData>>
  /\ UNCHANGED notLoadVars

\* setters that run as soon as the first response is there
insightsSettersAnalyticsFirst(data, id) == [data EXCEPT !.analytics = id]

\* setAnalytics, setInsights, setTransactions after the await of Promise.all
insightsSetters(data, id) ==
  [analytics |-> id, insights |-> id, transactions |-> id]

\* request i of the load in slot sl settles; when that settles the
\* Promise.all of the load, the rest of loadData runs in the same turn:
\* the setters on success, the finally block in both cases
RequestSettles(sl, i, result) ==
  /\ loads[sl].screen # "none"
  /\ i <= Len(loads[sl].reqs)
  /\ loads[sl].reqs[i] = "inflight"
  /\ LET load     == loads[sl]
         before   == load.reqs
         after    == [before EXCEPT ![i] = result]
         resolves == AllOk(after)
         rejects  == ~AnyFail(before) /\ result = "fail"
     IN  /\ loads' = [loads EXCEPT ![sl] =
                        IF Settled(after) THEN NoLoad
                        ELSE [load EXCEPT !.reqs = after]]
         /\ IF load.screen = "home" /\ (resolves \/ rejects)
            THEN /\ homeData' = IF resolves
                                THEN [summary |-> load.id, transactions |-> load.id]
                                ELSE homeData
                 /\ homeLoading' = FALSE
                 /\ homeRefreshing' = FALSE
            ELSE UNCHANGED <<homeData, homeLoading, homeRefreshing>>
         /\ IF load.screen = "insights" /\ (resolves \/ rejects)
            THEN /\ insData' = IF resolves
                               THEN insightsSetters(insData, load.id)
                               ELSE insData
                 /\ insLoading' = FALSE
                 /\ insRefreshing' = FALSE
            ELSE UNCHANGED <<insData, insLoading, insRefreshing>>
  /\ UNCHANGED <<focus, loadCalls>>
  /\ UNCHANGED notLoadVars

NextLoad ==
  \/ FocusHome
  \/ HomeRefresh
  \/ FocusInsights
  \/ InsightsRefresh
  \/ FocusOther
  \/ \E sl \in 1..MaxLoads, i \in 1..InsightsRequests, result \in {"ok", "fail"} :
       RequestSettles(sl, i, result)

(***************************************************************************)
(* (tabs)/transactions                                                     *)
(*                                                                         *)
(* The repository holds two TransactionsScreen components: one that loads  *)
(* in useFocusEffect and groups by date ("focus"), and one that loads in   *)
(* useEffect(..., []) and shows the flat list ("mount").                   *)
(***************************************************************************)
MaxTxns == 3                   \* transactions on the server at the start
MaxTxLoads == 2                \* GET /transactions requests in flight

Dates == {"2024-05-01", "2024-05-02"}
TxTypes == {"income", "expense"}
Amounts == {1, 2}

Txn(id, type, amount, date) ==
  [id |-> id, type |-> type, amount |-> amount, date |-> date]

\* the lists of at most n transactions, ids in order of creation
RECURSIVE TxnLists(_)
TxnLists(n) ==
  IF n = 0 THEN {<<>>}
  ELSE LET shorter == TxnLists(n - 1)
       IN  shorter \cup
             {Append(l, Txn(Len(l) + 1, ty, am, d)) :
                l \in {x \in shorter : Len(x) = n - 1},
                ty \in TxTypes, am \in Amounts, d \in Dates}

NoGroups == [d \in {} |-> 0]

NewGroup ==
  [transactions |-> <<>>, totalIncome |-> 0, totalExpense |-> 0,
   isExpanded |-> FALSE]

\* one turn of the forEach of groupTransactionsByDate that books every
\* amount as an expense
addToGroupAllExpense(grouped, txn) ==
  LET dateKey == txn.date
      g == IF dateKey \in DOMAIN grouped THEN grouped
           ELSE [d \in DOMAIN grouped \cup {dateKey} |->
                   IF d = dateKey THEN NewGroup ELSE grouped[d]]
  IN  [g EXCEPT ![dateKey].transactions = Append(@, txn),
                ![dateKey].totalExpense = @ + txn.amount]

\* one turn of the forEach of groupTransactionsByDate
addToGroup(grouped, txn) ==
  LET dateKey == txn.date
      g == IF dateKey \in DOMAIN grouped THEN grouped
           ELSE [d \in DOMAIN grouped \cup {dateKey} |->
                   IF d = dateKey THEN NewGroup ELSE grouped[d]]
  IN  IF txn.type = "income"
      THEN [g EXCEPT ![dateKey].transactions = Append(@, txn),
                     ![dateKey].totalIncome = @ + txn.amount]
      ELSE [g EXCEPT ![dateKey].transactions = Append(@, txn),
                     ![dateKey].totalExpense = @ + txn.amount]

RECURSIVE groupFrom(_, _)
groupFrom(grouped, txns) ==
  IF txns = <<>> THEN grouped
  ELSE groupFrom(addToGroup(grouped, Head(txns)), Tail(txns))

groupTransactionsByDate(txns) == groupFrom(NoGroups, txns)

TxIdle ==
  /\ txVariant = "focus"
  /\ route = "other"
  /\ serverTxns = <<>>
  /\ txPending = 0
  /\ txTransactions = <<>>
  /\ groupedTransactions = NoGroups
  /\ txLoading = TRUE
  /\ txRefreshing = FALSE

\* the grouping screen over any stored list
InitTx ==
  /\ txVariant = "focus"
  /\ route = "other"
  /\ serverTxns \in TxnLists(MaxTxns)
  /\ txPending = 0
  /\ txTransactions = <<>>
  /\ groupedTransactions = NoGroups
  /\ txLoading = TRUE
  /\ txRefreshing = FALSE

\* the Transactions tab gains the focus.  "focus": useFocusEffect calls
\* loadTransactions on every focus.  "mount": useEffect(..., []) calls it
\* when the screen mounts, which is its first focus (txLoading is still
\* its initial true and nothing was requested), and never again.
TxFocus ==
  /\ route = "other"
  /\ route' = "transactions"
  /\ LET loadsNow == \/ txVariant = "focus"
                     \/ (txLoading /\ txPending = 0)
     IN  /\ loadsNow => txPending < MaxTxLoads
         /\ txPending' = IF loadsNow THEN txPending + 1 ELSE txPending
  /\ UNCHANGED <<txVariant, serverTxns, txTransactions, groupedTransactions,
                 txLoading, txRefreshing>>
  /\ UNCHANGED notTxVars

\* another tab takes the focus
TxBlur ==
  /\ route = "transactions"
  /\ route' = "other"
  /\ UNCHANGED <<txVariant, serverTxns, txPending, txTransactions,
                 groupedTransactions, txLoading, txRefreshing>>
  /\ UNCHANGED notTxVars

\* onRefresh
TxRefresh ==
  /\ route = "transactions"
  /\ ~txLoading
  /\ txVariant = "mount" => txTransactions # <<>>
  /\ txPending < MaxTxLoads
  /\ txRefreshing' = TRUE
  /\ txPending' = txPending + 1
  /\ UNCHANGED <<txVariant, route, serverTxns, txTransactions,
                 groupedTransactions, txLoading>>
  /\ UNCHANGED notTxVars

\* loadTransactions, GET /transactions answered
TxLoadOk ==
  /\ txPending > 0
  /\ txPending' = txPending - 1
  /\ txTransactions' = serverTxns
  /\ groupedTransactions' =
       IF txVariant = "focus" THEN groupTransactionsByDate(serverTxns)
       ELSE groupedTransactions
  /\ txLoading' = FALSE
  /\ txRefreshing' = FALSE
  /\ UNCHANGED <<txVariant, route, serverTxns>>
  /\ UNCHANGED notTxVars

\* loadTransactions, GET /transactions failed
TxLoadFail ==
  /\ txPending > 0
  /\ txPending' = txPending - 1
  /\ txLoading' = FALSE
  /\ txRefreshing' = FALSE
  /\ UNCHANGED <<txVariant, route, serverTxns, txTransactions, groupedTransactions>>
  /\ UNCHANGED notTxVars

\* an updater that only ever expands
toggledExpandOnly(prev, date) == [prev EXCEPT ![date].isExpanded = TRUE]

\* the updater of toggleDateExpansion: (prev) => ({...prev, [date]: {...}})
toggled(prev, date) == [prev EXCEPT ![date].isExpanded = ~@]

\* toggleDateExpansion(date), from the header of a rendered group
toggleDateExpansion(date) ==
  /\ route = "transactions"
  /\ ~txLoading
  /\ date \in DOMAIN groupedTransactions
  /\ groupedTransactions' = toggled(groupedTransactions, date)
  /\ UNCHANGED <<txVariant, route, serverTxns, txPending, txTransactions,
                 txLoading, txRefreshing>>
  /\ UNCHANGED notTxVars

NextTx ==
  \/ TxFocus
  \/ TxBlur
  \/ TxRefresh
  \/ TxLoadOk
  \/ TxLoadFail
  \/ \E date \in Dates : toggleDateExpansion(date)

(***************************************************************************)
(* (tabs)/insights: period filter, chart data, renderChart                 *)
(*                                                                         *)
(* Time is in minutes since an epoch, in UTC.  A transaction date is the   *)
(* day number d of its 'yyyy-MM-dd' string; new Date(date) is UTC midnight *)
(* of that day.  setHours works in local time, tzMin minutes east of UTC;  *)
(* 23:59:59.999 is the last minute of the local day.                       *)
(***************************************************************************)
MaxInsTxns == 2                \* transactions the Insights screen holds

DayMin == 1440                 \* 1000 * 3600 * 24 ms, in minutes
WeekDays == 7
MonthDays == 30
YearDays == 365
BarSlice == 6                  \* .slice(0, 6)
PieSlice == 5                  \* .slice(0, 5)
LineSlice == 10                \* .slice(-10)
LabelMax == 8                  \* name.length > 8
NoDate == 0 - 1

ChartTypes == {"bar", "pie", "line"}
TimePeriods == {"today", "yesterday", "week", "month", "year", "all", "custom"}
ViewModes == {"categories", "income-expense"}
Tiers == {"free", "starter", "pro"}

\* the days of the chart runs: one more than a month back, and the day of
\* the device clock
InsDays == <<360, 400>>
OldDay == InsDays[1]
Today == InsDays[2]

InsTxn(type, category, amount, date) ==
  [type |-> type, category_name |-> category, amount |-> amount, date |-> date]

InsTxnPool ==
  { InsTxn("expense", "Food", 2, Today),
    InsTxn("expense", "Entertainment", 1, Today),
    InsTxn("expense", "Food", 1, OldDay),
    InsTxn("income", "Salary", 2, Today),
    InsTxn("income", "Salary", 1, OldDay),
    InsTxn("expense", "Entertainment", 2, OldDay) }

NameLength(name) ==
  CASE name = "Food" -> 4 [] name = "Salary" -> 6 [] name = "Entertainment" -> 13

\* name.substring(0, 8) + '...'
Shortened(name) ==
  CASE name = "Entertainment" -> "Entertai..." [] OTHER -> name

Min(a, b) == IF a <= b THEN a ELSE b

\* new Date(dateString).getTime()
dateTime(day) == day * DayMin

\* date.setHours(0, 0, 0, 0)
startOfDay(t, tz) == ((t + tz) \div DayMin) * DayMin - tz

\* date.setHours(23, 59, 59, 999)
endOfDay(t, tz) == startOfDay(t, tz) + DayMin - 1

\* a filter whose 'week' is the seven days before today
inPeriodWeekBeforeToday(t, period, customStart, customEnd, clock, tz) ==
  LET now              == endOfDay(clock, tz)
      transDate        == dateTime(t.date)
      startOfToday     == startOfDay(now, tz)
      startOfYesterday == startOfToday - DayMin
      diffTime         == now - transDate
  IN  CASE period = "today" -> transDate >= startOfToday /\ transDate <= now
        [] period = "yesterday" ->
             transDate >= startOfYesterday /\ transDate < startOfToday
        [] period = "week" ->
             diffTime <= (WeekDays + 1) * DayMin /\ transDate < startOfToday
        [] period = "month" -> diffTime <= MonthDays * DayMin
        [] period = "year" -> diffTime <= YearDays * DayMin
        [] period = "custom" ->
             IF customStart # NoDate /\ customEnd # NoDate
             THEN /\ transDate >= startOfDay(dateTime(customStart), tz)
                  /\ transDate <= endOfDay(dateTime(customEnd), tz)
             ELSE TRUE
        [] OTHER -> TRUE

\* the callback of transactions.filter in filterTransactionsByPeriod
inPeriod(t, period, customStart, customEnd, clock, tz) ==
  LET now              == endOfDay(clock, tz)
      transDate        == dateTime(t.date)
      startOfToday     == startOfDay(now, tz)
      startOfYesterday == startOfToday - DayMin
      diffTime         == now - transDate
  IN  CASE period = "today" -> transDate >= startOfToday /\ transDate <= now
        [] period = "yesterday" ->
             transDate >= startOfYesterday /\ transDate < startOfToday
        [] period = "week" -> diffTime <= WeekDays * DayMin
        [] period = "month" -> diffTime <= MonthDays * DayMin
        [] period = "year" -> diffTime <= YearDays * DayMin
        [] period = "custom" ->
             IF customStart # NoDate /\ customEnd # NoDate
             THEN /\ transDate >= startOfDay(dateTime(customStart), tz)
                  /\ transDate <= endOfDay(dateTime(customEnd), tz)
             ELSE TRUE
        [] OTHER -> TRUE

filterTransactionsByPeriod(txns) ==
  SelectSeq(txns, LAMBDA t : inPeriod(t, timePeriod, customStartDate,
                                      customEndDate, nowMin, tzMin))

\* categoryTotals[name] = (categoryTotals[name] || 0) + amount, as the
\* entries of the object in insertion order
RECURSIVE categoryTotals(_, _)
categoryTotals(acc, txns) ==
  IF txns = <<>> THEN acc
  ELSE LET t    == Head(txns)
           hits == {i \in 1..Len(acc) : acc[i].name = t.category_name}
       IN  categoryTotals(
             IF hits = {}
             THEN Append(acc, [name |-> t.category_name, value |-> t.amount])
             ELSE [i \in 1..Len(acc) |->
                     IF i \in hits
                     THEN [acc[i] EXCEPT !.value = @ + t.amount] ELSE acc[i]],
             Tail(txns))

\* entries.sort(([, a], [, b]) => b - a): stable, larger values first
RECURSIVE sortByValueDesc(_)
sortByValueDesc(entries) ==
  IF entries = <<>> THEN <<>>
  ELSE LET sorted == sortByValueDesc(SubSeq(entries, 1, Len(entries) - 1))
           e      == entries[Len(entries)]
           k      == Cardinality({i \in 1..Len(sorted) : sorted[i].value >= e.value})
       IN  SubSeq(sorted, 1, k) \o <<e>> \o SubSeq(sorted, k + 1, Len(sorted))

TopCategories(txns, n) ==
  LET expenses == SelectSeq(filterTransactionsByPeriod(txns),
                            LAMBDA t : t.type = "expense")
      sorted   == sortByValueDesc(categoryTotals(<<>>, expenses))
  IN  SubSeq(sorted, 1, Min(n, Len(sorted)))

getCategoryChartData(txns) ==
  LET top == TopCategories(txns, BarSlice)
  IN  [i \in 1..Len(top) |->
         [value |-> top[i].value,
          label |-> IF NameLength(top[i].name) > LabelMax
                    THEN Shortened(top[i].name) ELSE top[i].name,
          color |-> (i - 1) % BarSlice]]

\* ((value / total_expense) * 100).toFixed(0); a zero total gives Infinity
Percent(value, total) ==
  IF total = 0 THEN [finite |-> FALSE, pct |-> 0]
  ELSE [finite |-> TRUE, pct |-> (200 * value + total) \div (2 * total)]

getPieChartData(txns, analytics) ==
  LET top == TopCategories(txns, PieSlice)
  IN  [i \in 1..Len(top) |->
         [value |-> top[i].value,
          text  |-> Percent(top[i].value, analytics.total_expense),
          color |-> (i - 1) % PieSlice,
          name  |-> top[i].name]]

\* dailyData[date].income / .expense, entries in insertion order
RECURSIVE dailyData(_, _)
dailyData(acc, txns) ==
  IF txns = <<>> THEN acc
  ELSE LET t    == Head(txns)
           acc1 == IF \E i \in 1..Len(acc) : acc[i].date = t.date THEN acc
                   ELSE Append(acc, [date |-> t.date, income |-> 0, expense |-> 0])
           acc2 == [i \in 1..Len(acc1) |->
                      IF acc1[i].date # t.date THEN acc1[i]
                      ELSE IF t.type = "income"
                           THEN [acc1[i] EXCEPT !.income = @ + t.amount]
                           ELSE [acc1[i] EXCEPT !.expense = @ + t.amount]]
       IN  dailyData(acc2, Tail(txns))

\* entries.sort(([a], [b]) => a.localeCompare(b)): dates ascending
RECURSIVE sortByDate(_)
sortByDate(entries) ==
  IF entries = <<>> THEN <<>>
  ELSE LET sorted == sortByDate(SubSeq(entries, 1, Len(entries) - 1))
           e      == entries[Len(entries)]
           k      == Cardinality({i \in 1..Len(sorted) : sorted[i].date <= e.date})
       IN  SubSeq(sorted, 1, k) \o <<e>> \o SubSeq(sorted, k + 1, Len(sorted))

RECURSIVE runningBalance(_, _)
runningBalance(days, start) ==
  IF days = <<>> THEN <<>>
  ELSE LET b == start + Head(days).income - Head(days).expense
       IN  <<b>> \o runningBalance(Tail(days), b)

NoLine == [income |-> <<>>, expense |-> <<>>, balance |-> <<>>, labels |-> <<>>]

getLineChartData(txns) ==
  LET all    == sortByDate(dailyData(<<>>, filterTransactionsByPeriod(txns)))
      sorted == SubSeq(all, Len(all) - Min(LineSlice, Len(all)) + 1, Len(all))
      \* new Date(date).getDate(): the local day the UTC midnight falls on
      labels == [i \in 1..Len(sorted) |->
                   (dateTime(sorted[i].date) + tzMin) \div DayMin]
  IN  IF viewMode = "income-expense"
      THEN [income  |-> [i \in 1..Len(sorted) |-> sorted[i].income],
            expense |-> [i \in 1..Len(sorted) |-> sorted[i].expense],
            balance |-> <<>>,
            labels  |-> labels]
      ELSE [income  |-> <<>>,
            expense |-> <<>>,
            balance |-> runningBalance(sorted, 0),
            labels  |-> labels]

getIncomeExpenseBarData(txns) ==
  LET filtered == filterTransactionsByPeriod(txns)
      sum(type) == LET picked == SelectSeq(filtered, LAMBDA t : t.type = type)
                       S[i \in 0..Len(picked)] ==
                         IF i = 0 THEN 0 ELSE S[i - 1] + picked[i].amount
                   IN  S[Len(picked)]
  IN  << [value |-> sum("income"), label |-> "Income", color |-> 0],
         [value |-> sum("expense"), label |-> "Expenses", color |-> 1] >>

Area(kind, bars, pie, line) ==
  [kind |-> kind, bars |-> bars, pie |-> pie, line |-> line]

\* the chart area before the component has rendered its current state
NotRendered == Area("pending", <<>>, <<>>, NoLine)

\* renderChart: "empty" is the 'No data available' placeholder, "null"
\* the final return null
renderChart ==
  IF ~insAnalytics.loaded \/ Len(insTransactions) = 0
  THEN Area("empty", <<>>, <<>>, NoLine)
  ELSE LET chartData == IF viewMode = "categories"
                        THEN getCategoryChartData(insTransactions)
                        ELSE getIncomeExpenseBarData(insTransactions)
       IN  IF chartType = "bar"
           THEN Area("bar", chartData, <<>>, NoLine)
           ELSE IF chartType = "pie" /\ viewMode = "categories"
           THEN Area("pie", <<>>, getPieChartData(insTransactions, insAnalytics),
                     NoLine)
           ELSE IF chartType = "line"
           THEN Area("line", <<>>, <<>>, getLineChartData(insTransactions))
           ELSE Area("null", <<>>, <<>>, NoLine)

NoAnalytics == [loaded |-> FALSE, total_expense |-> 0]
Analytics(total) == [loaded |-> TRUE, total_expense |-> total]

ChartIdle ==
  /\ userTier = "free"
  /\ nowMin = Today * DayMin + 720
  /\ tzMin = 0
  /\ insAnalytics = NoAnalytics
  /\ insTransactions = <<>>
  /\ chartType = "bar"
  /\ timePeriod = "month"
  /\ viewMode = "categories"
  /\ customStartDate = NoDate
  /\ customEndDate = NoDate
  /\ chartArea = NotRendered

\* the screen before its first load, or holding the result of a load:
\* analytics and transactions are set together
InitChart ==
  /\ userTier \in Tiers
  /\ nowMin = Today * DayMin + 720
  /\ tzMin = 0
  /\ \/ insAnalytics = NoAnalytics /\ insTransactions = <<>>
     \/ /\ insAnalytics \in {Analytics(0), Analytics(3)}
        /\ insTransactions \in SeqsUpTo(InsTxnPool, MaxInsTxns)
  /\ chartType = "bar"
  /\ timePeriod = "month"
  /\ viewMode = "categories"
  /\ customStartDate = NoDate
  /\ customEndDate = NoDate
  /\ chartArea = NotRendered

\* a render that sorts the stored transactions in place on its way
RenderSortingInPlace ==
  /\ chartArea = NotRendered
  /\ chartArea' = renderChart
  /\ insTransactions' = sortByDate(insTransactions)
  /\ UNCHANGED <<userTier, nowMin, tzMin, insAnalytics, chartType,
                 timePeriod, viewMode, customStartDate, customEndDate>>
  /\ UNCHANGED notChartVars

\* the component renders: {renderChart()} computes the filtered list and
\* the chart data of the current state
Render ==
  /\ chartArea = NotRendered
  /\ chartArea' = renderChart
  /\ UNCHANGED <<userTier, nowMin, tzMin, insAnalytics, insTransactions,
                 chartType, timePeriod, viewMode, customStartDate, customEndDate>>
  /\ UNCHANGED notChartVars

\* onPress={() => setChartType(type)}
SetChartType(type) ==
  /\ chartArea # NotRendered
  /\ chartType # type
  /\ chartType' = type
  /\ chartArea' = NotRendered
  /\ UNCHANGED <<userTier, nowMin, tzMin, insAnalytics, insTransactions,
                 timePeriod, viewMode, customStartDate, customEndDate>>
  /\ UNCHANGED notChartVars

\* onPress of a period chip
SetTimePeriod(period) ==
  /\ chartArea # NotRendered
  /\ timePeriod # period
  /\ timePeriod' = period
  /\ chartArea' = NotRendered
  /\ UNCHANGED <<userTier, nowMin, tzMin, insAnalytics, insTransactions,
                 chartType, viewMode, customStartDate, customEndDate>>
  /\ UNCHANGED notChartVars

\* onPress={() => setViewMode(...)}
SetViewMode(mode) ==
  /\ chartArea # NotRendered
  /\ viewMode # mode
  /\ viewMode' = mode
  /\ chartArea' = NotRendered
  /\ UNCHANGED <<userTier, nowMin, tzMin, insAnalytics, insTransactions,
                 chartType, timePeriod, customStartDate, customEndDate>>
  /\ UNCHANGED notChartVars

NextChart ==
  \/ Render
  \/ \E type \in ChartTypes : SetChartType(type)
  \/ \E period \in TimePeriods : SetTimePeriod(period)
  \/ \E mode \in ViewModes : SetViewMode(mode)

(***************************************************************************)
(* add-transaction                                                         *)
(*                                                                         *)
(* The screen is pushed on the Stack over the tabs and popped by           *)
(* router.back(); the tab under it keeps its state and regains the focus.  *)
(* A category whose type is missing carries type "".  Amounts are numbers  *)
(* in units of 1 / Scale.                                                  *)
(***************************************************************************)
MaxPosts == 2                  \* POST /transactions requests in a run

INCOME_SOURCES ==
  <<"Salary", "Freelance", "Business", "Investment", "Rental", "Gift",
    "Bonus", "Other">>

Category(id, name, type) == [id |-> id, name |-> name, type |-> type]

CategoryLists ==
  { <<>>,
    <<Category(1, "Food", "expense"), Category(2, "Pay", "income")>>,
    <<Category(1, "Old", ""), Category(2, "Pay", "income")>>,
    <<Category(1, "Pay", "income"), Category(2, "Old", ""),
      Category(3, "Food", "expense")>> }

AmountTexts == {<<>>, <<"5">>, <<"0">>, <<"a">>, <<"-", "5">>}

AddDates == {"2024-05-02"}

\* the income source chips that get tapped
TappedSources == {INCOME_SOURCES[1], INCOME_SOURCES[2]}

NoPost == [sent |-> FALSE]

\* categories.filter(c => c.type === type)
filterByTypeStrict(cats, type) ==
  SelectSeq(cats, LAMBDA c : c.type = type)

\* the filter without the fallback for a missing type
filterByTypeNoFallback(cats, type) ==
  SelectSeq(cats, LAMBDA c : c.type = type)

\* categories.filter(c => (c.type || 'expense') === type)
filterByType(cats, type) ==
  SelectSeq(cats, LAMBDA c : (IF c.type = "" THEN "expense" ELSE c.type) = type)

\* the chips of the Category field
CategoryChips == filterByType(categories, addType)

\* filteredCats.length > 0 ? filteredCats[0].name : ''
FirstName(cats) == IF Len(cats) > 0 THEN cats[1].name ELSE ""

\* numAmount < 0
NegativeOnly(x) == x.neg /\ x.m > 0

\* numAmount <= 0
NotPositive(x) == x.neg \/ x.m = 0

Signed(x) == IF x.neg THEN 0 - x.m ELSE x.m

\* the focus effect of the tab that router.back() returns to:
\* loadTransactions() in the screen that loads in useFocusEffect
ReloadsOnReturn(tab) == tab = "transactions" /\ txVariant = "focus"

AddFormIdle ==
  /\ addFrom = "other"
  /\ addType = "expense"
  /\ addAmount = <<>>
  /\ categoryId = ""
  /\ incomeSource = ""
  /\ addDate = "2024-05-02"
  /\ categories = <<>>
  /\ addLoading = FALSE
  /\ loadingCategories = TRUE
  /\ effectPending = FALSE

AddIdle ==
  /\ serverCategories = <<>>
  /\ AddFormIdle
  /\ addPost = NoPost
  /\ addAlert = ""

\* the app on a tab, nothing stored on the server yet, with either
\* Transactions screen
InitAdd ==
  /\ serverCategories \in CategoryLists
  /\ AddFormIdle
  /\ addPost = NoPost
  /\ addAlert = ""
  /\ txVariant \in {"focus", "mount"}
  /\ route = "other"
  /\ serverTxns = <<>>
  /\ txPending = 0
  /\ txTransactions = <<>>
  /\ groupedTransactions = NoGroups
  /\ txLoading = TRUE
  /\ txRefreshing = FALSE

\* the form as useState leaves it when the screen unmounts and mounts
ResetForm ==
  /\ addType' = "expense"
  /\ addAmount' = <<>>
  /\ categoryId' = ""
  /\ incomeSource' = ""
  /\ categories' = <<>>
  /\ addLoading' = FALSE
  /\ loadingCategories' = TRUE
  /\ effectPending' = FALSE

\* the user can act on the form: it is on top, past the spinner, its
\* effects have run and no alert covers it
Interactive ==
  /\ route = "add"
  /\ ~loadingCategories
  /\ ~effectPending
  /\ addAlert = ""

\* router.push('/add-transaction'): the screen mounts, loadCategories()
\* is called and the selection effect runs over the empty category list
OpenAdd ==
  /\ route \in {"other", "transactions"}
  /\ route = "transactions" => ~txLoading
  /\ addPost = NoPost
  /\ addAlert = ""
  /\ route' = "add"
  /\ addFrom' = route
  /\ ResetForm
  /\ addDate' \in AddDates
  /\ UNCHANGED <<serverCategories, addPost, addAlert>>
  /\ UNCHANGED <<txVariant, serverTxns, txPending, txTransactions,
                 groupedTransactions, txLoading, txRefreshing>>
  /\ UNCHANGED notAddTxVars

\* loadCategories, GET /categories answered
LoadCategoriesOk ==
  /\ route = "add"
  /\ loadingCategories
  /\ categories' = serverCategories
  /\ LET expenseCategories == filterByTypeStrict(serverCategories, "expense")
     IN  categoryId' = IF Len(expenseCategories) > 0
                       THEN expenseCategories[1].name ELSE categoryId
  /\ loadingCategories' = FALSE
  /\ effectPending' = TRUE
  /\ UNCHANGED <<serverCategories, addFrom, addType, addAmount, incomeSource,
                 addDate, addLoading, addPost, addAlert>>
  /\ UNCHANGED txVars
  /\ UNCHANGED notAddTxVars

\* loadCategories, GET /categories failed
LoadCategoriesFail ==
  /\ route = "add"
  /\ loadingCategories
  /\ loadingCategories' = FALSE
  /\ UNCHANGED <<serverCategories, addFrom, addType, addAmount, categoryId,
                 incomeSource, addDate, categories, addLoading,
                 effectPending, addPost, addAlert>>
  /\ UNCHANGED txVars
  /\ UNCHANGED notAddTxVars

\* useEffect(..., [type, categories])
SelectionEffect ==
  /\ route = "add"
  /\ effectPending
  /\ LET filteredCats == filterByType(categories, addType)
     IN  IF addType = "income"
         THEN /\ incomeSource' = INCOME_SOURCES[1]
              /\ categoryId' = FirstName(filteredCats)
         ELSE /\ categoryId' = FirstName(filteredCats)
              /\ incomeSource' = ""
  /\ effectPending' = FALSE
  /\ UNCHANGED <<serverCategories, addFrom, addType, addAmount, addDate,
                 categories, addLoading, loadingCategories, addPost, addAlert>>
  /\ UNCHANGED txVars
  /\ UNCHANGED notAddTxVars

\* onPress={() => setType(t)}
SetType(t) ==
  /\ Interactive
  /\ addType' = t
  /\ effectPending' = (t # addType)
  /\ UNCHANGED <<serverCategories, addFrom, addAmount, categoryId,
                 incomeSource, addDate, categories, addLoading,
                 loadingCategories, addPost, addAlert>>
  /\ UNCHANGED txVars
  /\ UNCHANGED notAddTxVars

\* onChangeText={setAmount}
SetAmount(text) ==
  /\ Interactive
  /\ addAmount' = text
  /\ UNCHANGED <<serverCategories, addFrom, addType, categoryId, incomeSource,
                 addDate, categories, addLoading, loadingCategories,
                 effectPending, addPost, addAlert>>
  /\ UNCHANGED txVars
  /\ UNCHANGED notAddTxVars

\* onPress={() => setCategoryId(cat.name)} of the i-th chip
SetCategoryId(i) ==
  /\ Interactive
  /\ i \in 1..Len(CategoryChips)
  /\ categoryId' = CategoryChips[i].name
  /\ UNCHANGED <<serverCategories, addFrom, addType, addAmount, incomeSource,
                 addDate, categories, addLoading, loadingCategories,
                 effectPending, addPost, addAlert>>
  /\ UNCHANGED txVars
  /\ UNCHANGED notAddTxVars

\* onPress={() => setIncomeSource(source)}
SetIncomeSource(source) ==
  /\ Interactive
  /\ addType = "income"
  /\ incomeSource' = source
  /\ UNCHANGED <<serverCategories, addFrom, addType, addAmount, categoryId,
                 addDate, categories, addLoading, loadingCategories,
                 effectPending, addPost, addAlert>>
  /\ UNCHANGED txVars
  /\ UNCHANGED notAddTxVars

\* handleSave up to the await of api.post
HandleSave ==
  /\ Interactive
  /\ ~addLoading
  /\ LET numAmount == parseFloat(addAmount)
         alert == IF addAmount = <<>> THEN "Please fill in amount"
                  ELSE IF categoryId = "" THEN "Please select a category"
                  ELSE IF isNaN(numAmount) \/ NotPositive(numAmount)
                  THEN "Please enter a valid amount"
                  ELSE ""
     IN  IF alert # ""
         THEN /\ addAlert' = alert
              /\ UNCHANGED <<addLoading, addPost>>
         ELSE /\ Len(serverTxns) < MaxPosts
              /\ addLoading' = TRUE
              /\ addPost' = [sent |-> TRUE, type |-> addType,
                             amount |-> Signed(numAmount), date |-> addDate,
                             category_name |-> categoryId,
                             income_source |->
                               IF addType = "income" THEN incomeSource ELSE ""]
              /\ UNCHANGED addAlert
  /\ UNCHANGED <<serverCategories, addFrom, addType, addAmount, categoryId,
                 incomeSource, addDate, categories, loadingCategories,
                 effectPending>>
  /\ UNCHANGED txVars
  /\ UNCHANGED notAddTxVars

\* the server stores the transaction and api.post resolves: the success
\* alert, router.back() and, on the tab that regains the focus, its focus
\* effect.  If the screen was closed meanwhile there is nothing to pop.
PostAccepted ==
  /\ addPost # NoPost
  /\ serverTxns' = Append(serverTxns, Txn(Len(serverTxns) + 1, addPost.type,
                                          addPost.amount, addPost.date))
  /\ addPost' = NoPost
  /\ addAlert' = "Transaction added successfully"
  /\ IF route = "add"
     THEN /\ route' = addFrom
          /\ ReloadsOnReturn(addFrom) => txPending < MaxTxLoads
          /\ txPending' = IF ReloadsOnReturn(addFrom)
                          THEN txPending + 1 ELSE txPending
          /\ ResetForm
     ELSE UNCHANGED <<route, txPending, addType, addAmount, categoryId,
                      incomeSource, categories, addLoading,
                      loadingCategories, effectPending>>
  /\ UNCHANGED <<serverCategories, addFrom, addDate>>
  /\ UNCHANGED <<txVariant, txTransactions, groupedTransactions, txLoading,
                 txRefreshing>>
  /\ UNCHANGED notAddTxVars

\* api.post rejects: the failure alert, the form stays
PostRejected ==
  /\ addPost # NoPost
  /\ addPost' = NoPost
  /\ addAlert' = "Failed to add transaction"
  /\ addLoading' = FALSE
  /\ UNCHANGED <<serverCategories, addFrom, addType, addAmount, categoryId,
                 incomeSource, addDate, categories, loadingCategories,
                 effectPending>>
  /\ UNCHANGED txVars
  /\ UNCHANGED notAddTxVars

\* the alert is dismissed
DismissAlert ==
  /\ addAlert # ""
  /\ addAlert' = ""
  /\ UNCHANGED <<serverCategories, addFrom, addType, addAmount, categoryId,
                 incomeSource, addDate, categories, addLoading,
                 loadingCategories, effectPending, addPost>>
  /\ UNCHANGED txVars
  /\ UNCHANGED notAddTxVars

\* the close button: router.back()
CloseAdd ==
  /\ Interactive
  /\ route' = addFrom
  /\ ReloadsOnReturn(addFrom) => txPending < MaxTxLoads
  /\ txPending' = IF ReloadsOnReturn(addFrom) THEN txPending + 1 ELSE txPending
  /\ ResetForm
  /\ UNCHANGED <<serverCategories, addFrom, addDate, addPost, addAlert>>
  /\ UNCHANGED <<txVariant, serverTxns, txTransactions, groupedTransactions,
                 txLoading, txRefreshing>>
  /\ UNCHANGED notAddTxVars

NextAdd ==
  \/ OpenAdd
  \/ LoadCategoriesOk
  \/ LoadCategoriesFail
  \/ SelectionEffect
  \/ \E t \in TxTypes : SetType(t)
  \/ \E text \in AmountTexts : SetAmount(text)
  \/ \E i \in 1..3 : SetCategoryId(i)
  \/ \E source \in TappedSources : SetIncomeSource(source)
  \/ HandleSave
  \/ PostAccepted
  \/ PostRejected
  \/ DismissAlert
  \/ CloseAdd
  \/ TxFocus
  \/ TxBlur
  \/ TxLoadOk
  \/ TxLoadFail

(***************************************************************************)
(* (tabs)/insights: the period filter over any clock and timezone          *)
(*                                                                         *)
(* The transactions are dated relative to the local calendar day of the    *)
(* device; one more is saved from the add-transaction screen, whose        *)
(* payload date is format(new Date(), 'yyyy-MM-dd'), the local day.        *)
(***************************************************************************)
MaxFilterTxns == 2             \* transactions the filter runs over

TzOffsets == {0 - 720, 0 - 300, 0, 330, 840}    \* minutes east of UTC
TimesOfDay == {30, 1410}                        \* minutes after 00:00 UTC
DayOffsets == {1, 0, 0 - 1, 0 - 7, 0 - 30, 0 - 365, 0 - 366}
CustomDays == {Today - 1}

\* format(date, 'yyyy-MM-dd') of date-fns: the local calendar day
formatLocalDay(t, tz) == (t + tz) \div DayMin

NotFiltered == [done |-> FALSE, list |-> <<>>]

FilterIdle == insFiltered = NotFiltered

InitFilter ==
  /\ userTier = "free"
  /\ nowMin \in {Today * DayMin + tod : tod \in TimesOfDay}
  /\ tzMin \in TzOffsets
  /\ insAnalytics = NoAnalytics
  /\ insTransactions \in
       SeqsUpTo({InsTxn("expense", "Food", 1, formatLocalDay(nowMin, tzMin) + off) :
                   off \in DayOffsets}, MaxFilterTxns)
  /\ chartType = "bar"
  /\ timePeriod = "month"
  /\ viewMode = "categories"
  /\ customStartDate = NoDate
  /\ customEndDate = NoDate
  /\ chartArea = NotRendered
  /\ insFiltered = NotFiltered

\* filterTransactionsByPeriod(transactions), as the chart builders call it
ApplyFilter ==
  /\ ~insFiltered.done
  /\ insFiltered' = [done |-> TRUE, list |-> filterTransactionsByPeriod(insTransactions)]
  /\ UNCHANGED <<userTier, nowMin, tzMin, insAnalytics, insTransactions,
                 chartType, timePeriod, viewMode, customStartDate,
                 customEndDate, chartArea>>
  /\ UNCHANGED notChartFilterVars

\* onPress of a period chip
SelectPeriod(period) ==
  /\ timePeriod # period
  /\ timePeriod' = period
  /\ insFiltered' = NotFiltered
  /\ UNCHANGED <<userTier, nowMin, tzMin, insAnalytics, insTransactions,
                 chartType, viewMode, customStartDate, customEndDate, chartArea>>
  /\ UNCHANGED notChartFilterVars

\* setCustomStartDate(new Date(dateStr)) from the prompt
SetCustomStartDate(day) ==
  /\ timePeriod = "custom"
  /\ customStartDate' = day
  /\ insFiltered' = NotFiltered
  /\ UNCHANGED <<userTier, nowMin, tzMin, insAnalytics, insTransactions,
                 chartType, timePeriod, viewMode, customEndDate, chartArea>>
  /\ UNCHANGED notChartFilterVars

\* setCustomEndDate(new Date(dateStr)) from the prompt
SetCustomEndDate(day) ==
  /\ timePeriod = "custom"
  /\ customEndDate' = day
  /\ insFiltered' = NotFiltered
  /\ UNCHANGED <<userTier, nowMin, tzMin, insAnalytics, insTransactions,
                 chartType, timePeriod, viewMode, customStartDate, chartArea>>
  /\ UNCHANGED notChartFilterVars

\* a transaction is saved from the add-transaction screen now and the
\* Insights screen loads it
SaveToday ==
  /\ Len(insTransactions) < MaxFilterTxns
  /\ insTransactions' =
       Append(insTransactions,
              InsTxn("expense", "Food", 1, formatLocalDay(nowMin, tzMin)))
  /\ insFiltered' = NotFiltered
  /\ UNCHANGED <<userTier, nowMin, tzMin, insAnalytics, chartType, timePeriod,
                 viewMode, customStartDate, customEndDate, chartArea>>
  /\ UNCHANGED notChartFilterVars

NextFilter ==
  \/ ApplyFilter
  \/ \E period \in TimePeriods : SelectPeriod(period)
  \/ \E day \in CustomDays : SetCustomStartDate(day)
  \/ \E day \in CustomDays : SetCustomEndDate(day)
  \/ SaveToday

(***************************************************************************)
(* budget: the Set Budget screen                                           *)
(***************************************************************************)
WeeksPerMonth == 4             \* budgetValue * 4
DaysPerMonth == 30             \* budgetValue * 30

BudgetPeriods == {"day", "week", "month"}
BudgetTexts == {<<>>, <<"5">>, <<"0">>, <<"a">>, <<"-", "5">>}
ServerBudgets == {0, 5}

NoPut == [sent |-> FALSE, monthly_budget |-> NaN]

\* x <= 0 of JavaScript: false for NaN
LessOrEqualZero(x) == ~isNaN(x) /\ (x.neg \/ x.m = 0)

\* x * k of JavaScript
Times(x, k) == IF isNaN(x) THEN NaN ELSE Num(x.neg, x.m * k)

\* !budget || parseFloat(budget) <= 0
invalidBudget(text) ==
  text = <<>> \/ LessOrEqualZero(parseFloat(text))

BudgetFormIdle ==
  /\ budgetPeriod = "month"
  /\ budget = <<>>
  /\ budgetLoading = FALSE

BudgetIdle ==
  /\ budgetOpen = FALSE
  /\ serverBudget = 0
  /\ budgetLoadPending = FALSE
  /\ BudgetFormIdle
  /\ budgetPut = NoPut
  /\ budgetAlert = ""

InitBudget ==
  /\ budgetOpen = FALSE
  /\ serverBudget \in ServerBudgets
  /\ budgetLoadPending = FALSE
  /\ BudgetFormIdle
  /\ budgetPut = NoPut
  /\ budgetAlert = ""

\* the screen mounts: useEffect(() => loadBudget(), [])
OpenBudget ==
  /\ ~budgetOpen
  /\ budgetPut = NoPut
  /\ budgetAlert = ""
  /\ budgetOpen' = TRUE
  /\ budgetLoadPending' = TRUE
  /\ budgetPeriod' = "month"
  /\ budget' = <<>>
  /\ budgetLoading' = FALSE
  /\ UNCHANGED <<serverBudget, budgetPut, budgetAlert>>
  /\ UNCHANGED notBudgetVars

\* loadBudget, GET /profile answered
LoadBudgetOk ==
  /\ budgetLoadPending
  /\ budgetLoadPending' = FALSE
  /\ budget' = IF budgetOpen /\ serverBudget # 0
               THEN NatDigits(serverBudget) ELSE budget
  /\ UNCHANGED <<budgetOpen, serverBudget, budgetPeriod, budgetLoading,
                 budgetPut, budgetAlert>>
  /\ UNCHANGED notBudgetVars

\* loadBudget, GET /profile failed
LoadBudgetFail ==
  /\ budgetLoadPending
  /\ budgetLoadPending' = FALSE
  /\ UNCHANGED <<budgetOpen, serverBudget, budgetPeriod, budget,
                 budgetLoading, budgetPut, budgetAlert>>
  /\ UNCHANGED notBudgetVars

\* onPress={() => setPeriod(p)}
SetPeriod(p) ==
  /\ budgetOpen
  /\ budgetAlert = ""
  /\ budgetPeriod' = p
  /\ UNCHANGED <<budgetOpen, serverBudget, budgetLoadPending, budget,
                 budgetLoading, budgetPut, budgetAlert>>
  /\ UNCHANGED notBudgetVars

\* onChangeText={setBudget}
SetBudget(text) ==
  /\ budgetOpen
  /\ budgetAlert = ""
  /\ budget' = text
  /\ UNCHANGED <<budgetOpen, serverBudget, budgetLoadPending, budgetPeriod,
                 budgetLoading, budgetPut, budgetAlert>>
  /\ UNCHANGED notBudgetVars

\* handleSaveBudget up to the await of api.put; the button is disabled
\* while loading and while the field is empty
HandleSaveBudget ==
  /\ budgetOpen
  /\ budgetAlert = ""
  /\ ~(budgetLoading \/ budget = <<>>)
  /\ IF invalidBudget(budget)
     THEN /\ budgetAlert' = "Please enter a valid budget amount"
          /\ UNCHANGED <<budgetLoading, budgetPut>>
     ELSE LET budgetValue == parseFloat(budget)
              monthlyBudget ==
                IF budgetPeriod = "month" THEN budgetValue
                ELSE IF budgetPeriod = "week"
                THEN Times(budgetValue, WeeksPerMonth)
                ELSE Times(budgetValue, DaysPerMonth)
          IN  /\ budgetLoading' = TRUE
              /\ budgetPut' = [sent |-> TRUE, monthly_budget |-> monthlyBudget]
              /\ UNCHANGED budgetAlert
  /\ UNCHANGED <<budgetOpen, serverBudget, budgetLoadPending, budgetPeriod,
                 budget>>
  /\ UNCHANGED notBudgetVars

\* api.put resolves: the success alert and router.back()
PutAccepted ==
  /\ budgetPut # NoPut
  /\ budgetPut' = NoPut
  /\ budgetAlert' = "budget set successfully!"
  /\ budgetOpen' = FALSE
  /\ budgetPeriod' = "month"
  /\ budget' = <<>>
  /\ budgetLoading' = FALSE
  /\ UNCHANGED <<serverBudget, budgetLoadPending>>
  /\ UNCHANGED notBudgetVars

\* api.put rejects
PutRejected ==
  /\ budgetPut # NoPut
  /\ budgetPut' = NoPut
  /\ budgetAlert' = "Failed to save budget"
  /\ budgetLoading' = FALSE
  /\ UNCHANGED <<budgetOpen, serverBudget, budgetLoadPending, budgetPeriod,
                 budget>>
  /\ UNCHANGED notBudgetVars

\* the alert is dismissed
DismissBudgetAlert ==
  /\ budgetAlert # ""
  /\ budgetAlert' = ""
  /\ UNCHANGED <<budgetOpen, serverBudget, budgetLoadPending, budgetPeriod,
                 budget, budgetLoading, budgetPut>>
  /\ UNCHANGED notBudgetVars

NextBudget ==
  \/ OpenBudget
  \/ LoadBudgetOk
  \/ LoadBudgetFail
  \/ \E p \in BudgetPeriods : SetPeriod(p)
  \/ \E text \in BudgetTexts : SetBudget(text)
  \/ HandleSaveBudget
  \/ PutAccepted
  \/ PutRejected
  \/ DismissBudgetAlert

(***************************************************************************)
(* (tabs)/chat                                                             *)
(*                                                                         *)
(* A message is [role, text, n]: n numbers the send a user message comes   *)
(* from and the send an assistant message answers; the welcome message has *)
(* n = 0.  A request in flight is "sent" until the server has handled it   *)
(* and "answered" until its response reaches the client.  The server       *)
(* stores the user's message and its reply when it handles POST /chat.     *)
(***************************************************************************)
MaxSends == 2                  \* sendMessage calls that pass the guard
MaxGets == 1                   \* GET /chat/history requests in flight

InputTexts == {<<>>, <<" ">>, <<"h">>, <<" ", "h">>}
ReplyText == <<"o", "k">>
WelcomeText == <<"H", "e", "y">>

Message(role, text, n) == [role |-> role, text |-> text, n |-> n]

\* text.trim()
RECURSIVE trim(_)
trim(text) ==
  IF text = <<>> THEN <<>>
  ELSE IF Head(text) = " " THEN trim(Tail(text))
  ELSE IF text[Len(text)] = " " THEN trim(SubSeq(text, 1, Len(text) - 1))
  ELSE text

RemoveAt(q, i) == SubSeq(q, 1, i - 1) \o SubSeq(q, i + 1, Len(q))

\* the guard of sendMessage without its test of loading
passesGuardIgnoringLoading(text, loading) == trim(text) # <<>>

\* !(!inputText.trim() || loading)
passesGuard(text, loading) == trim(text) # <<>> /\ ~loading

\* an aiMessage that carries the user's text
aiMessageEcho(post) == Message("assistant", post.text, post.n)

\* aiMessage: role 'assistant', text response.data.message
aiMessage(post) == Message("assistant", post.reply, post.n)

welcomeMessage == Message("assistant", WelcomeText, 0)

ChatIdle ==
  /\ chatHistory = <<>>
  /\ chatPosts = <<>>
  /\ chatGets = <<>>
  /\ chatSends = 0
  /\ messages = <<>>
  /\ inputText = <<>>
  /\ chatLoading = FALSE
  /\ initialLoad = TRUE

\* the screen has mounted: useEffect(() => loadChatHistory(), [])
InitChat ==
  /\ chatHistory = <<>>
  /\ chatPosts = <<>>
  /\ chatGets = <<[stage |-> "sent", snapshot |-> <<>>]>>
  /\ chatSends = 0
  /\ messages = <<>>
  /\ inputText = <<>>
  /\ chatLoading = FALSE
  /\ initialLoad = TRUE

\* onChangeText={setInputText}
SetInputText(text) ==
  /\ ~initialLoad
  /\ inputText' = text
  /\ UNCHANGED <<chatHistory, chatPosts, chatGets, chatSends, messages,
                 chatLoading, initialLoad>>
  /\ UNCHANGED notChatVars

\* sendMessage up to the await of api.post
sendMessage ==
  /\ ~initialLoad
  /\ IF ~passesGuard(inputText, chatLoading)
     THEN UNCHANGED <<chatPosts, chatSends, messages, inputText, chatLoading>>
     ELSE LET userMessage == trim(inputText)
          IN  /\ chatSends < MaxSends
              /\ chatSends' = chatSends + 1
              /\ inputText' = <<>>
              /\ messages' = Append(messages,
                                    Message("user", userMessage, chatSends + 1))
              /\ chatLoading' = TRUE
              /\ chatPosts' = Append(chatPosts,
                                     [stage |-> "sent", n |-> chatSends + 1,
                                      text |-> userMessage, reply |-> <<>>])
  /\ UNCHANGED <<chatHistory, chatGets, initialLoad>>
  /\ UNCHANGED notChatVars

\* the server handles POST /chat
ServerChat(i) ==
  /\ i \in 1..Len(chatPosts)
  /\ chatPosts[i].stage = "sent"
  /\ chatPosts' = [chatPosts EXCEPT ![i].stage = "answered",
                                    ![i].reply = ReplyText]
  /\ chatHistory' = chatHistory \o
       <<Message("user", chatPosts[i].text, chatPosts[i].n),
         Message("assistant", ReplyText, chatPosts[i].n)>>
  /\ UNCHANGED <<chatGets, chatSends, messages, inputText, chatLoading,
                 initialLoad>>
  /\ UNCHANGED notChatVars

\* sendMessage after api.post resolves
PostOk(i) ==
  /\ i \in 1..Len(chatPosts)
  /\ chatPosts[i].stage = "answered"
  /\ messages' = Append(messages, aiMessage(chatPosts[i]))
  /\ chatLoading' = FALSE
  /\ chatPosts' = RemoveAt(chatPosts, i)
  /\ UNCHANGED <<chatHistory, chatGets, chatSends, inputText, initialLoad>>
  /\ UNCHANGED notChatVars

\* sendMessage after api.post rejects: the request or its response is lost
PostFail(i) ==
  /\ i \in 1..Len(chatPosts)
  /\ chatLoading' = FALSE
  /\ chatPosts' = RemoveAt(chatPosts, i)
  /\ UNCHANGED <<chatHistory, chatGets, chatSends, messages, inputText,
                 initialLoad>>
  /\ UNCHANGED notChatVars

\* the refresh button: loadChatHistory up to the await of api.get
RefreshChat ==
  /\ ~initialLoad
  /\ Len(chatGets) < MaxGets
  /\ chatGets' = Append(chatGets, [stage |-> "sent", snapshot |-> <<>>])
  /\ UNCHANGED <<chatHistory, chatPosts, chatSends, messages, inputText,
                 chatLoading, initialLoad>>
  /\ UNCHANGED notChatVars

\* the server handles GET /chat/history
ServerHistory(i) ==
  /\ i \in 1..Len(chatGets)
  /\ chatGets[i].stage = "sent"
  /\ chatGets' = [chatGets EXCEPT ![i] = [stage |-> "answered",
                                          snapshot |-> chatHistory]]
  /\ UNCHANGED <<chatHistory, chatPosts, chatSends, messages, inputText,
                 chatLoading, initialLoad>>
  /\ UNCHANGED notChatVars

\* loadChatHistory after api.get resolves
HistoryOk(i) ==
  /\ i \in 1..Len(chatGets)
  /\ chatGets[i].stage = "answered"
  /\ LET history == chatGets[i].snapshot
     IN  messages' = IF Len(history) = 0 THEN <<welcomeMessage>> ELSE history
  /\ initialLoad' = FALSE
  /\ chatGets' = RemoveAt(chatGets, i)
  /\ UNCHANGED <<chatHistory, chatPosts, chatSends, inputText, chatLoading>>
  /\ UNCHANGED notChatVars

\* loadChatHistory after api.get rejects
HistoryFail(i) ==
  /\ i \in 1..Len(chatGets)
  /\ initialLoad' = FALSE
  /\ chatGets' = RemoveAt(chatGets, i)
  /\ UNCHANGED <<chatHistory, chatPosts, chatSends, messages, inputText,
                 chatLoading>>
  /\ UNCHANGED notChatVars

NextChat ==
  \/ \E text \in InputTexts : SetInputText(text)
  \/ sendMessage
  \/ \E i \in 1..MaxSends : ServerChat(i)
  \/ \E i \in 1..MaxSends : PostOk(i)
  \/ \E i \in 1..MaxSends : PostFail(i)
  \/ RefreshChat
  \/ \E i \in 1..MaxGets : ServerHistory(i)
  \/ \E i \in 1..MaxGets : HistoryOk(i)
  \/ \E i \in 1..MaxGets : HistoryFail(i)

(***************************************************************************)
(* categories                                                              *)
(*                                                                         *)
(* The screen loads the list when it mounts and again after every add and  *)
(* delete the server has accepted.  The name typed for a new category is   *)
(* taken to be non-blank.                                                  *)
(***************************************************************************)
MaxCatGets == 2                \* GET /categories requests in flight
MaxCatWrites == 2              \* adds and deletes in one run

CatIdle ==
  /\ catOpen = FALSE
  /\ catLoading = TRUE
  /\ catGets = 0
  /\ catAdding = FALSE
  /\ catDeletes = 0
  /\ catWrites = 0

\* useEffect(() => { loadCategories(); }, [])
OpenCategories ==
  /\ ~catOpen
  /\ catOpen' = TRUE
  /\ catGets' = catGets + 1
  /\ UNCHANGED <<catLoading, catAdding, catDeletes, catWrites>>
  /\ UNCHANGED notCatVars

\* loadCategories whose catch would skip the finally block
CatLoadFailNoFinally ==
  /\ catGets > 0
  /\ catGets' = catGets - 1
  /\ UNCHANGED <<catOpen, catLoading, catAdding, catDeletes, catWrites>>
  /\ UNCHANGED notCatVars

\* loadCategories, GET /categories answered
CatLoadOk ==
  /\ catGets > 0
  /\ catGets' = catGets - 1
  /\ catLoading' = FALSE
  /\ UNCHANGED <<catOpen, catAdding, catDeletes, catWrites>>
  /\ UNCHANGED notCatVars

\* loadCategories, GET /categories failed
CatLoadFail ==
  /\ catGets > 0
  /\ catGets' = catGets - 1
  /\ catLoading' = FALSE
  /\ UNCHANGED <<catOpen, catAdding, catDeletes, catWrites>>
  /\ UNCHANGED notCatVars

\* handleAddCategory up to its await (the Add button is disabled while
\* adding, and the header is rendered once loading is false)
handleAddCategory ==
  /\ catOpen
  /\ ~catLoading
  /\ ~catAdding
  /\ catWrites < MaxCatWrites
  /\ catAdding' = TRUE
  /\ catWrites' = catWrites + 1
  /\ UNCHANGED <<catOpen, catLoading, catGets, catDeletes>>
  /\ UNCHANGED notCatVars

\* POST /categories accepted: loadCategories() is called, then the finally
AddCategoryOk ==
  /\ catAdding
  /\ catGets < MaxCatGets
  /\ catAdding' = FALSE
  /\ catGets' = catGets + 1
  /\ UNCHANGED <<catOpen, catLoading, catDeletes, catWrites>>
  /\ UNCHANGED notCatVars

\* POST /categories rejected: the alert, then the finally
AddCategoryFail ==
  /\ catAdding
  /\ catAdding' = FALSE
  /\ UNCHANGED <<catOpen, catLoading, catGets, catDeletes, catWrites>>
  /\ UNCHANGED notCatVars

\* handleDeleteCategory, "Delete" pressed in the confirmation
handleDeleteCategory ==
  /\ catOpen
  /\ ~catLoading
  /\ catWrites < MaxCatWrites
  /\ catDeletes' = catDeletes + 1
  /\ catWrites' = catWrites + 1
  /\ UNCHANGED <<catOpen, catLoading, catGets, catAdding>>
  /\ UNCHANGED notCatVars

\* DELETE /categories/{id} accepted: loadCategories() is called
DeleteCategoryOk ==
  /\ catDeletes > 0
  /\ catGets < MaxCatGets
  /\ catDeletes' = catDeletes - 1
  /\ catGets' = catGets + 1
  /\ UNCHANGED <<catOpen, catLoading, catAdding, catWrites>>
  /\ UNCHANGED notCatVars

\* DELETE /categories/{id} rejected: the alert
DeleteCategoryFail ==
  /\ catDeletes > 0
  /\ catDeletes' = catDeletes - 1
  /\ UNCHANGED <<catOpen, catLoading, catGets, catAdding, catWrites>>
  /\ UNCHANGED notCatVars

CatLoadSettles == CatLoadOk \/ CatLoadFail

NextCategories ==
  \/ OpenCategories
  \/ CatLoadOk
  \/ CatLoadFail
  \/ handleAddCategory
  \/ AddCategoryOk
  \/ AddCategoryFail
  \/ handleDeleteCategory
  \/ DeleteCategoryOk
  \/ DeleteCategoryFail

(***************************************************************************)
(* The four list screens and their loads, with time passing                *)
(*                                                                         *)
(* Home, Insights, Transactions and Categories keep their state apart and  *)
(* share no request: a behaviour exercises one of the four screens while   *)
(* the other three stay as they are before their first load.               *)
(***************************************************************************)
\* either Transactions screen before its first focus, nothing stored
InitTxLoads ==
  /\ txVariant \in {"focus", "mount"}
  /\ route = "other"
  /\ serverTxns = <<>>
  /\ txPending = 0
  /\ txTransactions = <<>>
  /\ groupedTransactions = NoGroups
  /\ txLoading = TRUE
  /\ txRefreshing = FALSE

TxAtRest ==
  route = "other" /\ txPending = 0 /\ txLoading /\ ~txRefreshing

TxLoadSettles == TxLoadOk \/ TxLoadFail

NextTxLoads ==
  \/ TxFocus
  \/ TxBlur
  \/ TxRefresh
  \/ TxLoadOk
  \/ TxLoadFail

\* a request of a Home or Insights load settles, one way or the other
LoadRequestSettles ==
  \E sl \in 1..MaxLoads, i \in 1..InsightsRequests, result \in {"ok", "fail"} :
    RequestSettles(sl, i, result)

\* a screen of the loadData pair before its first load
HomeAtRest ==
  /\ \A sl \in 1..MaxLoads : loads[sl].screen # "home"
  /\ focus # "home"
  /\ homeLoading
  /\ ~homeRefreshing

InsightsAtRest ==
  /\ \A sl \in 1..MaxLoads : loads[sl].screen # "insights"
  /\ focus # "insights"
  /\ insLoading
  /\ ~insRefreshing

NextHomeLoads ==
  \/ FocusHome
  \/ HomeRefresh
  \/ FocusOther
  \/ LoadRequestSettles

NextInsightsLoads ==
  \/ FocusInsights
  \/ InsightsRefresh
  \/ FocusOther
  \/ LoadRequestSettles

NextScreens ==
  \/ (InsightsAtRest /\ TxAtRest /\ CatIdle /\ NextHomeLoads)
  \/ (HomeAtRest /\ TxAtRest /\ CatIdle /\ NextInsightsLoads)
  \/ (LoadIdle /\ CatIdle /\ NextTxLoads)
  \/ (LoadIdle /\ TxAtRest /\ NextCategories)

(***************************************************************************)
(* _layout: RootLayout                                                     *)
(*                                                                         *)
(* The GET /subscription/config of the layout goes through the shared      *)
(* client of utils/api.  The screens, and with them every other use of the *)
(* client and of the stored token, exist only while the layout renders its *)
(* Stack.                                                                  *)
(***************************************************************************)
ConfigUrl == "/subscription/config"
ConfigKeys == {"", "pk_test"}

\* a layout that renders its Stack whatever the key
RootLayoutRenderAlways(k) == "stack"

\* what RootLayout returns: null while publishableKey is falsy
RootLayoutRender(k) == IF k = "" THEN "null" ELSE "stack"

Rendered == RootLayoutRender(publishableKey) = "stack"

LayoutIdle ==
  /\ layoutPc = "unmounted"
  /\ publishableKey = ""
  /\ configKey = ""

\* the app starts; the server is configured with a key or with none
InitLayout ==
  /\ layoutPc = "unmounted"
  /\ publishableKey = ""
  /\ configKey \in ConfigKeys

\* RootLayout mounts: useState(''), and the effect calls api.get
MountLayout ==
  /\ layoutPc = "unmounted"
  /\ apiPc = "idle"
  /\ layoutPc' = "fetching"
  /\ apiPc' = "sent"
  /\ apiConfig' = requestInterceptor([NoConfig EXCEPT !.url = ConfigUrl], apiToken)
  /\ apiAttempts' = <<>>
  /\ apiDelay' = 0
  /\ apiOutcome' = NoOutcome
  /\ UNCHANGED <<apiToken, publishableKey, configKey>>
  /\ UNCHANGED notApiLayoutVars

\* .then(res => setPublishableKey(res.data.publishable_key))
ConfigThen ==
  /\ layoutPc = "fetching"
  /\ apiPc = "resolved"
  /\ layoutPc' = "done"
  /\ publishableKey' = configKey
  /\ UNCHANGED configKey
  /\ UNCHANGED notLayoutVars

\* .catch(err => console.error(...))
ConfigCatch ==
  /\ layoutPc = "fetching"
  /\ apiPc = "rejected"
  /\ layoutPc' = "failed"
  /\ UNCHANGED <<publishableKey, configKey>>
  /\ UNCHANGED notLayoutVars

\* a screen under the Stack uses the client, logs in or logs out
ScreenStep ==
  /\ Rendered
  /\ \/ \E url \in Urls : ApiCall(url)
     \/ \E t \in Tokens : StoreToken(t)
     \/ RemoveToken

NextLayout ==
  \/ MountLayout
  \/ ConfigThen
  \/ ConfigCatch
  \/ \E reply \in Replies : ApiSuccess(reply)
  \/ \E reply \in Replies : ApiError(reply)
  \/ ApiReissue
  \/ ScreenStep

(***************************************************************************)
(* Specifications                                                          *)
(***************************************************************************)
\* utils/format alone
InitSpecFormat == InitFormat /\ ApiIdle /\ LoadIdle /\ TxIdle /\ ChartIdle /\ AddIdle /\ FilterIdle /\ BudgetIdle /\ ChatIdle /\ CatIdle /\ LayoutIdle
SpecFormat == InitSpecFormat /\ [][NextFormat]_vars

\* utils/api alone
InitSpecApi == InitApi /\ FormatQuiet /\ LoadIdle /\ TxIdle /\ ChartIdle /\ AddIdle /\ FilterIdle /\ BudgetIdle /\ ChatIdle /\ CatIdle /\ LayoutIdle
SpecApi == InitSpecApi /\ [][NextApi]_vars

\* the client with time passing: an attempt in flight ends (axios gives up
\* after its timeout) and a backoff timer fires
SpecApiLive ==
  InitSpecApi /\ [][NextApi]_vars /\ WF_vars(ApiSettle) /\ WF_vars(ApiReissue)

\* the Home and Insights tabs and their loads
InitSpecLoad == LoadIdle /\ FormatQuiet /\ ApiIdle /\ TxIdle /\ ChartIdle /\ AddIdle /\ FilterIdle /\ BudgetIdle /\ ChatIdle /\ CatIdle /\ LayoutIdle
SpecLoad == InitSpecLoad /\ [][NextLoad]_vars

\* the grouping Transactions tab over any stored list
InitSpecTx == InitTx /\ FormatQuiet /\ ApiIdle /\ LoadIdle /\ ChartIdle /\ AddIdle /\ FilterIdle /\ BudgetIdle /\ ChatIdle /\ CatIdle /\ LayoutIdle
SpecTx == InitSpecTx /\ [][NextTx]_vars

\* the chart of the Insights tab
InitSpecChart == InitChart /\ FormatQuiet /\ ApiIdle /\ LoadIdle /\ TxIdle /\ AddIdle /\ FilterIdle /\ BudgetIdle /\ ChatIdle /\ CatIdle /\ LayoutIdle
SpecChart == InitSpecChart /\ [][NextChart]_vars

\* adding a transaction, from either Transactions screen
InitSpecAdd == InitAdd /\ FormatQuiet /\ ApiIdle /\ LoadIdle /\ ChartIdle /\ FilterIdle /\ BudgetIdle /\ ChatIdle /\ CatIdle /\ LayoutIdle
SpecAdd == InitSpecAdd /\ [][NextAdd]_vars

\* the period filter of the Insights tab
InitSpecFilter == InitFilter /\ FormatQuiet /\ ApiIdle /\ LoadIdle /\ TxIdle /\ AddIdle /\ BudgetIdle /\ ChatIdle /\ CatIdle /\ LayoutIdle
SpecFilter == InitSpecFilter /\ [][NextFilter]_vars

\* the Set Budget screen
InitSpecBudget ==
  InitBudget /\ FormatQuiet /\ ApiIdle /\ LoadIdle /\ TxIdle /\ ChartIdle
    /\ AddIdle /\ FilterIdle /\ ChatIdle /\ CatIdle /\ LayoutIdle
SpecBudget == InitSpecBudget /\ [][NextBudget]_vars

\* the chat tab
InitSpecChat ==
  InitChat /\ FormatQuiet /\ ApiIdle /\ LoadIdle /\ TxIdle /\ ChartIdle
    /\ AddIdle /\ FilterIdle /\ BudgetIdle /\ CatIdle /\ LayoutIdle
SpecChat == InitSpecChat /\ [][NextChat]_vars

\* the list screens with time passing: every request in flight settles
\* (the client gives up after its timeout)
InitSpecScreens ==
  LoadIdle /\ InitTxLoads /\ CatIdle /\ FormatQuiet /\ ApiIdle /\ ChartIdle
    /\ AddIdle /\ FilterIdle /\ BudgetIdle /\ ChatIdle /\ LayoutIdle
SpecScreensLive ==
  /\ InitSpecScreens
  /\ [][NextScreens]_vars
  /\ WF_vars(LoadRequestSettles)
  /\ WF_vars(TxLoadSettles)
  /\ WF_vars(CatLoadSettles)

\* the app from its start: the layout, then the screens
InitSpecLayout ==
  InitLayout /\ InitApi /\ FormatQuiet /\ LoadIdle /\ TxIdle /\ ChartIdle
    /\ AddIdle /\ FilterIdle /\ BudgetIdle /\ ChatIdle /\ CatIdle
SpecLayout == InitSpecLayout /\ [][NextLayout]_vars

(***************************************************************************)
(* Claims about utils/format                                               *)
(***************************************************************************)
NaNText == <<"N", "a", "N">>
ContainsNaNText(s) == \E i \in 1..(Len(s) - 2) : SubSeq(s, i, i + 2) = NaNText

\* out is the integer part of x with a comma before every group of three
\* digits, and nothing after it
WholeRendering(out, x) ==
  LET first == IF x.neg THEN 2 ELSE 1
  IN  /\ "." \notin Range(out)
      /\ RemoveCommas(out)
           = (IF x.neg THEN <<"-">> ELSE <<>>) \o NatDigits(x.m \div Scale)
      /\ \A i \in 1..Len(out) :
           (out[i] = ",") <=> (i > first /\ (Len(out) - i + 1) % 4 = 0)

\* out ends in a decimal point followed by exactly two digits
TwoDecimals(out) ==
  /\ Len(out) >= 4
  /\ out[Len(out) - 2] = "."
  /\ out[Len(out) - 1] \in DigitChars
  /\ out[Len(out)] \in DigitChars
  /\ \A i \in 1..Len(out) : out[i] = "." => i = Len(out) - 2

ClaimedRendering(out, x) ==
  IF hasDecimals(x) THEN TwoDecimals(out) ELSE WholeRendering(out, x)

\* C3: formatNumber renders a whole number with thousands separators and
\* no decimal part (1500 -> '1,500'), and a number with a non-zero
\* fractional part with exactly two decimal digits.  Stated of every
\* formatNumber of the repository; frontend/utils/format.ts breaks it.
C3_WholeNumbersWithoutDecimals ==
  (fmtCall \in {"formatNumber", "formatNumberCond"} /\ ~isNaN(ToNum(fmtValue)))
    => ClaimedRendering(fmtResult, ToNum(fmtValue))

\* C4: malformed input yields the default value: for an input that does
\* not parse to a number formatNumber returns its zero string (what it
\* returns for 0), formatCurrency the currency symbol followed by that
\* string, parseFormattedNumber 0; and no result is NaN or holds 'NaN'.
C4_MalformedInputDefault ==
  /\ fmtCall = "formatNumber" =>
       /\ ~ContainsNaNText(fmtResult)
       /\ isNaN(ToNum(fmtValue)) => fmtResult = formatNumber(ZeroArg, 2)
  /\ fmtCall = "formatCurrency" =>
       /\ ~ContainsNaNText(fmtResult)
       /\ isNaN(ToNum(fmtValue))
            => fmtResult = fmtSymbol \o formatNumber(ZeroArg, 2)
  /\ fmtCall = "formatNumberCond" =>
       /\ ~ContainsNaNText(fmtResult)
       /\ isNaN(ToNum(fmtValue)) => fmtResult = formatNumberCond(ZeroArg)
  /\ fmtCall = "formatCurrencyCond" =>
       /\ ~ContainsNaNText(fmtResult)
       /\ isNaN(ToNum(fmtValue))
            => fmtResult = fmtSymbol \o formatNumberCond(ZeroArg)
  /\ fmtCall \in {"parseFormattedNumber", "parseFormattedNumberCond"} =>
       /\ ~isNaN(fmtResult)
       /\ isNaN(parseFloat(RemoveCommas(fmtValue.str)))
            => fmtResult = Num(FALSE, 0)

\* a malformed string went through formatCurrency and came out as "$0.00"
C4_Witness ==
  /\ fmtCall = "formatCurrency"
  /\ ~fmtValue.asNumber
  /\ fmtValue.str = <<"a", "1">>
  /\ fmtSymbol = <<"$">>
  /\ fmtResult = <<"$", "0", ".", "0", "0">>

(***************************************************************************)
(* Claims about utils/api                                                  *)
(***************************************************************************)
\* this step puts a reply with the given status on the wire history
GotStatus(st) ==
  /\ apiPc = "sent"
  /\ Len(apiAttempts') = Len(apiAttempts) + 1
  /\ apiAttempts'[Len(apiAttempts')].reply.status = st

\* C1: a 503 response to a request that has not been retried yet is not
\* rejected at once: the interceptor arms a timer of 1000 ms x retry count,
\* the only way out of the wait is the re-issue of the same request, and
\* the caller's promise settles with the outcome of the last send.
C1_RetryOn503 ==
  [][ /\ (GotStatus(503) /\ ~apiConfig._retry)
           => /\ apiPc' = "backoff"
              /\ apiOutcome' = NoOutcome
              /\ apiDelay' = 1000 * apiConfig'._retryCount
      /\ (apiPc = "backoff" /\ apiPc' # "backoff")
           => /\ apiPc' = "sent"
              /\ apiConfig'.url = apiConfig.url
              /\ apiOutcome' = NoOutcome
      /\ (apiPc = "sent" /\ apiPc' \in {"resolved", "rejected"})
           => /\ apiOutcome'.reply = apiAttempts'[Len(apiAttempts')].reply
              /\ (apiPc' = "resolved") <=> IsSuccess(apiOutcome'.reply)
    ]_vars

\* a request answered 503, re-issued after 1000 ms and then answered 200
C1_Witness ==
  /\ apiPc = "resolved"
  /\ Len(apiAttempts) = 2
  /\ apiAttempts[1].reply.status = 503
  /\ apiAttempts[2].reply.status = 200
  /\ apiDelay = 1000
  /\ apiOutcome.kind = "response"

(***************************************************************************)
(* Claims about the loads of the Home and Insights screens                 *)
(***************************************************************************)
SlotsOf(screen) == {sl \in 1..MaxLoads : loads[sl].screen = screen}

\* C2 as stated: the client issues its HTTP requests sequentially, so at
\* most one client HTTP request is in flight in every reachable state.
C2_AtMostOneInFlight == InFlight(loads) <= 1

\* C2 as amended: a loadData call puts all of its requests in flight at
\* once (2 on Home, 3 on Insights), loads started by focus and refresh
\* overlap, and the requests in flight never exceed 2 per unsettled Home
\* load plus 3 per unsettled Insights load.
C2_ConcurrentPerLoad ==
  [][ /\ loadCalls' = loadCalls + 1
           => InFlight(loads')
                = InFlight(loads) + (IF focus' = "home" THEN 2 ELSE 3)
      /\ InFlight(loads')
           <= 2 * Cardinality(SlotsOf("home")')
                + 3 * Cardinality(SlotsOf("insights")')
    ]_vars

\* an Insights refresh started while two requests of the focus load (which
\* one failure already ended) are still out: five requests in flight
C2_Witness ==
  /\ Cardinality(SlotsOf("insights")) = 2
  /\ insRefreshing
  /\ InFlight(loads) = 5

(***************************************************************************)
(* Claims about the Transactions screen                                    *)
(***************************************************************************)
RECURSIVE SumAmounts(_)
SumAmounts(txns) ==
  IF txns = <<>> THEN 0 ELSE Head(txns).amount + SumAmounts(Tail(txns))

OnDate(txns, d) == SelectSeq(txns, LAMBDA t : t.date = d)
IncomeOf(txns) == SelectSeq(txns, LAMBDA t : t.type = "income")
OthersOf(txns) == SelectSeq(txns, LAMBDA t : t.type # "income")

\* C5: groupTransactionsByDate partitions the loaded transactions by date:
\* the groups are keyed by the dates that occur, each group holds exactly
\* the transactions of its date in their original order (so every
\* transaction is in one group only), totalIncome sums its income amounts,
\* totalExpense sums all its other amounts, and the count badge
\* (transactions.length) is the number of transactions of that date.
C5_GroupsPartitionByDate ==
  txVariant = "focus" =>
    /\ DOMAIN groupedTransactions
         = {txTransactions[i].date : i \in 1..Len(txTransactions)}
    /\ \A d \in DOMAIN groupedTransactions :
         LET g == groupedTransactions[d]
         IN  /\ g.transactions = OnDate(txTransactions, d)
             /\ g.totalIncome = SumAmounts(IncomeOf(g.transactions))
             /\ g.totalExpense = SumAmounts(OthersOf(g.transactions))
             /\ Len(g.transactions)
                  = Cardinality({i \in 1..Len(txTransactions) :
                                   txTransactions[i].date = d})

\* three loaded transactions, two dates interleaved, income and expense
\* on the same date
C5_Witness ==
  /\ Len(txTransactions) = 3
  /\ txTransactions[1].date = "2024-05-01"
  /\ txTransactions[2].date = "2024-05-02"
  /\ txTransactions[3].date = "2024-05-01"
  /\ txTransactions[1].type = "income"
  /\ txTransactions[3].type = "expense"
  /\ DOMAIN groupedTransactions = Dates
  /\ groupedTransactions["2024-05-01"].totalIncome = 2
  /\ groupedTransactions["2024-05-01"].totalExpense = 1


(***************************************************************************)
(* Claims on the Insights chart                                            *)
(***************************************************************************)
ChartKinds == {"bar", "pie", "line"}

\* C6: computing the filtered list and the chart data is side-effect-free:
\* the step in which the screen renders its chart leaves the stored
\* transaction list (elements and order), the analytics summary and the
\* period, chart type and view mode selections as they were.
C6_ChartDataSideEffectFree ==
  [][(chartArea = NotRendered /\ chartArea' # NotRendered)
       => UNCHANGED <<insTransactions, insAnalytics, timePeriod, chartType,
                      viewMode, customStartDate, customEndDate>>]_vars

\* a line chart rendered from a stored list that is not in date order
C6_Witness ==
  /\ chartArea.kind = "line"
  /\ Len(chartArea.line.labels) = 2
  /\ Len(insTransactions) = 2
  /\ insTransactions[1].date > insTransactions[2].date

\* C8: charts are gated behind the subscription: a free-tier user is never
\* shown a bar, pie or line chart.
C8_ChartsGatedBySubscription ==
  userTier = "free" => chartArea.kind \notin ChartKinds

\* C9: with the analytics summary loaded and at least one transaction,
\* every combination of chart type and view mode renders a chart.
C9_EveryCombinationShowsChart ==
  (chartArea # NotRendered /\ insAnalytics.loaded /\ Len(insTransactions) > 0)
    => chartArea.kind \in ChartKinds


(***************************************************************************)
(* Claims on adding a transaction                                          *)
(***************************************************************************)
\* C7: when POST /transactions is accepted and router.back() returns the
\* user to the Transactions screen, that screen reloads its data: the
\* returning step issues GET /transactions, whose answer holds the new
\* transaction.
C7_ReturnReloadsTransactions ==
  [][(/\ addPost # NoPost
      /\ Len(serverTxns') = Len(serverTxns) + 1
      /\ route = "add"
      /\ route' = "transactions")
       => txPending' = txPending + 1]_vars

\* the type of a category, a missing one counting as 'expense'
TypeOrExpense(c) == IF c.type = "" THEN "expense" ELSE c.type

\* C10: once the category load and the effects have run, the chips offered
\* are exactly the loaded categories whose type, a missing type counting
\* as 'expense', is the selected transaction type, and the selected
\* category is empty or the name of one of those categories.
C10_CategoriesFilteredByType ==
  (route = "add" /\ ~loadingCategories /\ ~effectPending)
    => LET offered == {i \in 1..Len(categories) :
                         TypeOrExpense(categories[i]) = addType}
       IN  /\ Len(CategoryChips) = Cardinality(offered)
           /\ \A k \in 1..Len(CategoryChips) :
                \E i \in offered :
                  /\ CategoryChips[k] = categories[i]
                  /\ Cardinality({j \in offered : j <= i}) = k
           /\ \/ categoryId = ""
              \/ \E i \in offered : categories[i].name = categoryId

\* a category without a type is loaded, offered under Expense and selected
C10_Witness ==
  /\ route = "add"
  /\ ~loadingCategories
  /\ ~effectPending
  /\ addType = "expense"
  /\ Len(CategoryChips) = 2
  /\ categoryId = "Old"
  /\ \E i \in 1..Len(categories) :
       categories[i].name = "Old" /\ categories[i].type = ""


(***************************************************************************)
(* Claims on the period filter                                             *)
(***************************************************************************)
Selected(t) == \E i \in 1..Len(insFiltered.list) : insFiltered.list[i] = t

PeriodDays ==
  CASE timePeriod = "week" -> WeekDays
    [] timePeriod = "month" -> MonthDays
    [] timePeriod = "year" -> YearDays
    [] OTHER -> 0

C12_SavedTodayIsToday ==
  insFiltered.done
    => \A i \in 1..Len(insTransactions) :
         LET t == insTransactions[i]
         IN  t.date = formatLocalDay(nowMin, tzMin)
               => /\ timePeriod = "today" => Selected(t)
                  /\ timePeriod = "yesterday" => ~Selected(t)


(***************************************************************************)
(* Claims on the retry path of the API client                              *)
(***************************************************************************)
AllAnswered503 ==
  \A i \in 1..Len(apiAttempts) : apiAttempts[i].reply.status = ServiceUnavailable

\* C13: every request eventually settles, even if the server answers 503
\* to every attempt: one original request is sent a bounded number of
\* times, so the retry path cannot loop forever.
C13_RequestsSettle ==
  /\ [](Len(apiAttempts) <= RetryCountLimit + 1)
  /\ (apiPc = "sent") ~> (apiPc \in {"resolved", "rejected"})

\* a request rejected after 503 answers to the original and to its re-issue
C13_Witness ==
  /\ apiPc = "rejected"
  /\ Len(apiAttempts) = 2
  /\ AllAnswered503

\* C14: a request whose every attempt is answered with 503 is attempted 4
\* times, the original and 3 retries, and only then rejected with the
\* message 'Server is waking up. Please try again in a moment.'.
C14_FourAttemptsBeforeReject ==
  (apiPc = "rejected" /\ AllAnswered503)
    => /\ Len(apiAttempts) = RetryCountLimit + 1
       /\ apiOutcome.message = "Server is waking up. Please try again in a moment."

\* C15: a request carries the Authorization header if and only if a token
\* is stored at the moment it is sent, and then that token: also a request
\* re-issued after a 503 backoff during which the token was removed.
C15_AuthorizationFollowsToken ==
  [][(apiPc # "sent" /\ apiPc' = "sent") => apiConfig'.auth = apiToken]_vars


(***************************************************************************)
(* Claims on handleSave                                                    *)
(***************************************************************************)
\* the amount field parses to a number greater than 0 and a category is
\* selected
ValidEntry ==
  LET n == parseFloat(addAmount)
  IN  /\ ~isNaN(n)
      /\ ~n.neg
      /\ n.m > 0
      /\ categoryId # ""

\* C16: handleSave issues POST /transactions only when the amount parses
\* to a number greater than 0 and a category is selected; in every other
\* case it shows an error, sends no request, stays on the screen and
\* leaves loading false.
C16_SaveOnlyValidEntry ==
  [][/\ HandleSave =>
          IF ValidEntry
          THEN addPost' # NoPost /\ addLoading' /\ addAlert' = ""
          ELSE /\ addAlert' # ""
               /\ addPost' = NoPost
               /\ route' = "add"
               /\ addLoading' = FALSE
     /\ (addPost = NoPost /\ addPost' # NoPost)
          => (ValidEntry /\ addPost'.amount > 0)]_vars

\* handleSave has refused a zero amount with a category selected
C16_Witness ==
  /\ route = "add"
  /\ addAlert = "Please enter a valid amount"
  /\ addAmount = <<"0">>
  /\ categoryId # ""
  /\ addPost = NoPost
  /\ ~addLoading


(***************************************************************************)
(* Claims on the Set Budget screen                                         *)
(***************************************************************************)
\* C17: handleSaveBudget sends PUT /profile/preferences only for an entry
\* that parses to a number greater than 0, so the monthly_budget it sends
\* is always a positive number.
C17_BudgetSentIsPositive ==
  budgetPut.sent
    => /\ ~isNaN(budgetPut.monthly_budget)
       /\ ~budgetPut.monthly_budget.neg
       /\ budgetPut.monthly_budget.m > 0


(***************************************************************************)
(* Claims on the chat screen                                               *)
(***************************************************************************)
\* C18: at most one POST /chat request is in flight at any time:
\* sendMessage does nothing while a send is pending or when the input is
\* empty or only whitespace.
C18_OneChatPostInFlight ==
  /\ Len(chatPosts) <= 1
  /\ \A i \in 1..Len(chatPosts) : chatPosts[i].text # <<>> /\ chatPosts[i].text[1] # " "
  /\ chatPosts # <<>> => chatLoading

\* a send is pending while the next message is already typed
C18_Witness ==
  /\ Len(chatPosts) = 1
  /\ chatLoading
  /\ inputText = <<"h">>
  /\ chatSends < MaxSends

\* C19: when POST /chat succeeds exactly one assistant message carrying
\* the response text is appended to the list; when it fails the list, with
\* the user's message, stays as it is; in both cases loading returns to
\* false.
C19_SendOutcome ==
  [][\A i \in 1..MaxSends :
       /\ PostOk(i) =>
            /\ messages' = Append(messages,
                                  Message("assistant", chatPosts[i].reply,
                                          chatPosts[i].n))
            /\ chatPosts[i].reply = ReplyText
            /\ chatLoading' = FALSE
       /\ PostFail(i) =>
            /\ messages' = messages
            /\ chatLoading' = FALSE]_vars

\* the reply to the first send is shown right after its user message
C19_Witness ==
  /\ Len(messages) >= 2
  /\ messages[Len(messages)] = Message("assistant", ReplyText, 1)
  /\ messages[Len(messages) - 1] = Message("user", <<"h">>, 1)
  /\ ~chatLoading
  /\ chatPosts = <<>>

\* C20: once all requests have settled, every assistant reply in the list
\* directly follows the user message it answers, no user message is shown
\* twice, and no user message that the server has stored is missing.
C20_NoConcurrentMutationHazard ==
  (chatPosts = <<>> /\ chatGets = <<>>)
    => /\ \A j \in 1..Len(messages) :
            (messages[j].role = "assistant" /\ messages[j].n > 0)
              => /\ j > 1
                 /\ messages[j - 1].role = "user"
                 /\ messages[j - 1].n = messages[j].n
       /\ \A k \in 1..chatSends :
            LET shown == {j \in 1..Len(messages) :
                            messages[j].role = "user" /\ messages[j].n = k}
                stored == \E j \in 1..Len(chatHistory) : chatHistory[j].n = k
            IN  /\ Cardinality(shown) <= 1
                /\ stored => Cardinality(shown) = 1

(***************************************************************************)
(* Claims on the loads of the Insights screen                              *)
(***************************************************************************)
\* C21: loadData of the Insights screen is all-or-nothing.  A step in which
\* a request of an Insights load fails, or settles after another request of
\* that load has failed, leaves analytics, insights and transactions as
\* they were; the step that makes all three requests of a load succeed
\* replaces the three together by the data of that load; no other step
\* changes any of them.
C21_InsightsLoadAllOrNothing ==
  [][/\ \A sl \in 1..MaxLoads, i \in 1..InsightsRequests, result \in {"ok", "fail"} :
          (RequestSettles(sl, i, result) /\ loads[sl].screen = "insights") =>
            LET after == [loads[sl].reqs EXCEPT ![i] = result]
            IN  /\ AnyFail(after) => insData' = insData
                /\ AllOk(after) =>
                      /\ insData'.analytics = loads[sl].id
                      /\ insData'.insights = loads[sl].id
                      /\ insData'.transactions = loads[sl].id
                /\ (~AnyFail(after) /\ ~AllOk(after)) => insData' = insData
     /\ insData'.analytics = insData'.insights
     /\ insData'.insights = insData'.transactions]_vars

\* the first Insights load has set the three; a later load has failed and
\* the three still hold the data of the first
C21_Witness ==
  /\ insData = [analytics |-> 1, insights |-> 1, transactions |-> 1]
  /\ loadCalls = 2
  /\ \A sl \in 1..MaxLoads : loads[sl] = NoLoad
  /\ homeLoading
  /\ ~insLoading
  /\ ~insRefreshing

(***************************************************************************)
(* Claims on the loading state of the list screens                         *)
(***************************************************************************)
HomeBusy == \E sl \in 1..MaxLoads : loads[sl].screen = "home"
InsightsBusy == \E sl \in 1..MaxLoads : loads[sl].screen = "insights"

\* a load of some screen is under way
LoadUnderWay == HomeBusy \/ InsightsBusy \/ txPending > 0 \/ catGets > 0

\* no screen that has started a load shows its spinner or its
\* pull-to-refresh indicator
SpinnersCleared ==
  /\ ~HomeAtRest => (~homeLoading /\ ~homeRefreshing)
  /\ ~InsightsAtRest => (~insLoading /\ ~insRefreshing)
  /\ ~TxAtRest => (~txLoading /\ ~txRefreshing)
  /\ ~CatIdle => ~catLoading

\* C22: on Home, Insights, Transactions and Categories every load, whether
\* its requests succeed or fail, is followed by a state in which loading
\* (and refreshing, where the screen has it) is false on every screen that
\* has loaded; loading never returns to true, and refreshing is true only
\* while a load is under way.
C22_LoadingEventuallyCleared ==
  /\ LoadUnderWay ~> SpinnersCleared
  /\ [](/\ homeRefreshing => HomeBusy
        /\ insRefreshing => InsightsBusy
        /\ txRefreshing => txPending > 0)
  /\ [][/\ ~homeLoading => ~homeLoading'
        /\ ~insLoading => ~insLoading'
        /\ ~txLoading => ~txLoading'
        /\ ~catLoading => ~catLoading']_vars

\* the only load of the Home screen has failed: nothing was set and the
\* spinner is gone
C22_Witness ==
  /\ loadCalls = 1
  /\ ~HomeBusy
  /\ homeData = NoHomeData
  /\ ~homeLoading
  /\ ~homeRefreshing

(***************************************************************************)
(* Claims on RootLayout                                                    *)
(***************************************************************************)
\* the layout's request has settled without a usable key
ConfigSettledBlank ==
  layoutPc = "failed" \/ (layoutPc = "done" /\ publishableKey = "")

\* C23: RootLayout renders its Stack only after GET /subscription/config
\* has returned a non-empty publishable key, which is then the key in use;
\* the layout calls api.get for it once, when it mounts, and never again;
\* once the request has failed or returned an empty key nothing changes any
\* more and the layout renders null for ever.
C23_BlankUntilKey ==
  /\ [](Rendered => /\ layoutPc = "done"
                    /\ configKey # ""
                    /\ publishableKey = configKey)
  /\ [][/\ (apiPc # "backoff" /\ apiPc' = "sent" /\ apiConfig'.url = ConfigUrl)
             => (layoutPc = "unmounted" /\ layoutPc' = "fetching")
        /\ layoutPc # "unmounted" => layoutPc' # "unmounted"
        /\ layoutPc \in {"done", "failed"} => layoutPc' = layoutPc
        /\ ConfigSettledBlank => (~Rendered' /\ UNCHANGED vars)]_vars

\* the request was rejected after the client's one retry: blank for good
C23_Witness ==
  /\ layoutPc = "failed"
  /\ configKey # ""
  /\ Len(apiAttempts) = 2
  /\ ~Rendered

(***************************************************************************)
(* Claims on the date groups of the Transactions screen                    *)
(***************************************************************************)
\* C24: toggleDateExpansion(d) negates isExpanded of the group of date d
\* and changes nothing else: the transactions and totals of that group,
\* every other group, the set of groups and the rest of the screen stay as
\* they were; toggling d again gives back the groups as they were before;
\* and every group is collapsed when a load has built it.
C24_ToggleFlipsOnlyExpansion ==
  [][/\ \A date \in Dates :
          toggleDateExpansion(date) =>
            LET before == groupedTransactions
                after == groupedTransactions'
            IN  /\ DOMAIN after = DOMAIN before
                /\ after[date].isExpanded = ~before[date].isExpanded
                /\ after[date].transactions = before[date].transactions
                /\ after[date].totalIncome = before[date].totalIncome
                /\ after[date].totalExpense = before[date].totalExpense
                /\ \A d \in DOMAIN before \ {date} : after[d] = before[d]
                /\ toggled(after, date) = before
                /\ UNCHANGED <<txTransactions, txLoading, txRefreshing,
                               txPending, route, serverTxns>>
     /\ TxLoadOk =>
          \A d \in DOMAIN groupedTransactions' :
            ~groupedTransactions'[d].isExpanded]_vars

\* two groups with transactions, one expanded by a tap and one collapsed
C24_Witness ==
  \E d1, d2 \in DOMAIN groupedTransactions :
    /\ d1 # d2
    /\ groupedTransactions[d1].isExpanded
    /\ ~groupedTransactions[d2].isExpanded
    /\ groupedTransactions[d1].totalIncome > 0
    /\ groupedTransactions[d2].totalExpense > 0

(***************************************************************************)
(* Claims on the nesting of the periods                                    *)
(***************************************************************************)
InPeriodNow(t, period) ==
  inPeriod(t, period, customStartDate, customEndDate, nowMin, tzMin)

\* the next wider period
Wider ==
  [today |-> "week", yesterday |-> "week", week |-> "month",
   month |-> "year", year |-> "all"]

\* C25: for every transaction list, clock and timezone the periods are
\* nested: a transaction that 'today' or 'yesterday' selects is selected by
\* 'week', one that 'week' selects by 'month', one that 'month' selects by
\* 'year', and one that 'year' selects by 'all'; so the list the filter
\* returned for a period lies within the next wider period.
C25_PeriodsNested ==
  /\ \A i \in 1..Len(insTransactions), p \in DOMAIN Wider :
       InPeriodNow(insTransactions[i], p)
         => InPeriodNow(insTransactions[i], Wider[p])
  /\ (insFiltered.done /\ timePeriod \in DOMAIN Wider)
       => \A i \in 1..Len(insFiltered.list) :
            InPeriodNow(insFiltered.list[i], Wider[timePeriod])

\* 'today' has returned a transaction, and the list holds another that
\* 'year' selects and 'month' does not
C25_Witness ==
  /\ insFiltered.done
  /\ timePeriod = "today"
  /\ insFiltered.list # <<>>
  /\ \E i \in 1..Len(insTransactions) :
       /\ InPeriodNow(insTransactions[i], "year")
       /\ ~InPeriodNow(insTransactions[i], "month")

====
